---- MODULE Spec2Model ----
(***************************************************************************)
(* Model of the Cline ACP agent (src/src/cline/cline-acp-agent.ts and      *)
(* src/src/cline/conversion.ts): one session, its prompt turns, the        *)
(* snapshot loop processStreamingResponses, the approval round-trip        *)
(* handleApprovalRequest, and the backend (Cline) that owns the message    *)
(* history the snapshots carry.                                            *)
(***************************************************************************)
EXTENDS Integers, Sequences, FiniteSets, TLC

(***************************************************************************)
(* Bounds of the model.                                                    *)
(***************************************************************************)
\* messages the backend puts into its history
MaxMsgs == 2
\* prompt calls on the session
MaxTurns == 2
\* mode toggles of the backend
MaxModeFlips == 1

(***************************************************************************)
(* Payload texts.  A message's text is an untyped string; the literals     *)
(* below are the payloads the backend is given to send.                    *)
(***************************************************************************)
PromptTexts == {"Hello"}

ToolJson == "{\"tool\":\"read_file\",\"path\":\"a.ts\"}"
\* a payload cut mid-stream: not valid JSON
ToolJsonCut == "{\"tool\":\"read_file\",\"pa"
CostJson == "{\"tokensIn\":5,\"tokensOut\":2,\"cost\":1}"
CostZeroJson == "{\"cacheReads\":3,\"cost\":0}"
NoCostJson == "{\"request\":\"r\"}"
ResponseJson == "{\"response\":\"Plan\",\"options\":[]}"
PathContentJson == "{\"path\":\"a.ts\",\"content\":\"x\"}"
\* tool payloads: the content field holds the absolute path, or a preview
ReadAbsContentJson == "{\"tool\":\"read_file\",\"path\":\"a.ts\",\"content\":\"/ws/a.ts\"}"
ReadPreviewJson == "{\"tool\":\"read_file\",\"path\":\"a.ts\",\"content\":\"x\"}"
\* the path is the workspace folder's name, an absolute path, or missing
ListRootJson == "{\"tool\":\"list_files\",\"path\":\"ws\"}"
ReadAbsPathJson == "{\"tool\":\"read_file\",\"path\":\"/etc/hosts\"}"
ReadNoPathJson == "{\"tool\":\"read_file\",\"content\":\"x\"}"
Checklist == "- [x] a\n- [ ] b"

\* JSON.parse on the payload literals: the parsed object, as a record
JsonTable ==
  (ToolJson :> [tool |-> "read_file", path |-> "a.ts"]) @@
  (CostJson :> [tokensIn |-> 5, tokensOut |-> 2, cost |-> 1]) @@
  (CostZeroJson :> [cacheReads |-> 3, cost |-> 0]) @@
  (NoCostJson :> [request |-> "r"]) @@
  (ResponseJson :> [response |-> "Plan", options |-> <<>>]) @@
  (PathContentJson :> [path |-> "a.ts", content |-> "x"]) @@
  (ReadAbsContentJson :> [tool |-> "read_file", path |-> "a.ts", content |-> "/ws/a.ts"]) @@
  (ReadPreviewJson :> [tool |-> "read_file", path |-> "a.ts", content |-> "x"]) @@
  (ListRootJson :> [tool |-> "list_files", path |-> "ws"]) @@
  (ReadAbsPathJson :> [tool |-> "read_file", path |-> "/etc/hosts"]) @@
  (ReadNoPathJson :> [tool |-> "read_file", content |-> "x"])

IsJson(text) == text \in DOMAIN JsonTable

\* JSON.parse(msg.text || "{}"): the empty text parses as the empty object
EmptyObject == [x \in {} |-> 0]

JsonParse(text) == IF text = "" THEN EmptyObject ELSE JsonTable[text]

Parses(text) == text = "" \/ IsJson(text)

Has(data, f) == f \in DOMAIN data

\* data.f || dflt for a numeric field (0 and undefined both give dflt)
NumOr(data, f, dflt) == IF Has(data, f) /\ data[f] # 0 THEN data[f] ELSE dflt

\* p.startsWith("/")
StartsWithSlash(p) == Len(p) > 0 /\ SubSeq(p, 1, 1) = "/"

RECURSIVE LastSlash(_, _)
\* the position of the last "/" among the first i characters of p, 0 if none
LastSlash(p, i) ==
  IF i = 0 THEN 0
  ELSE IF SubSeq(p, i, i) = "/" THEN i
  ELSE LastSlash(p, i - 1)

\* workspaceRoot.split("/").pop()
Basename(root) == SubSeq(root, LastSlash(root, Len(root)) + 1, Len(root))

(***************************************************************************)
(* Messages and notifications.                                             *)
(***************************************************************************)
\* A ClineMessage as extractMessagesFromState builds it.  say / ask are ""
\* when the field is undefined.  The fields reasoning, planModeResponse and
\* askQuestion are undefined in every message the backend of this model
\* sends, so the text is always taken from the text field.
Msg(ts, type, say, ask, text, partial) ==
  [ts |-> ts, type |-> type, say |-> say, ask |-> ask, text |-> text,
   partial |-> partial]

NoLine == 0

\* An entry of the trace of the session's outward interactions.  ev is
\* "sessionUpdate" for a notification, "requestPermission" for the
\* permission request, "permissionOutcome" for the outcome it returned,
\* "newTask" / "askResponse" for a call to the backend.  ts is the
\* timestamp of the message the entry stems from (0 if none); for tool
\* calls it is the toolCallId.
Event(ev, su, ts, status, text, kind, title, locations, content, entries) ==
  [ev |-> ev, sessionUpdate |-> su, ts |-> ts, status |-> status,
   text |-> text, kind |-> kind, title |-> title, locations |-> locations,
   content |-> content, entries |-> entries]

TextChunk(su, ts, text) ==
  Event("sessionUpdate", su, ts, "", text, "", "", <<>>, <<>>, <<>>)

ToolCall(ts, status, title, kind, locations, content) ==
  Event("sessionUpdate", "tool_call", ts, status, "", kind, title, locations,
        content, <<>>)

(***************************************************************************)
(* conversion.ts                                                           *)
(***************************************************************************)
\* extractTextFromMessage
extractTextFromMessage(msg) ==
  IF msg.text # "" /\ IsJson(msg.text)
  THEN LET parsed == JsonParse(msg.text) IN
       IF Has(parsed, "response") THEN parsed.response
       ELSE IF Has(parsed, "question") THEN parsed.question
       ELSE msg.text
  ELSE msg.text

\* looksLikeToolJson: every JSON literal of the model starts with "{"
looksLikeToolJson(text) ==
  /\ IsJson(text)
  /\ LET parsed == JsonParse(text) IN
       \/ Has(parsed, "tool")
       \/ /\ Has(parsed, "path")
          /\ Has(parsed, "content") \/ Has(parsed, "operationIsLocatedInWorkspace")

\* mutant of parseToolInfo: the content field is always the inline content
parseToolInfoContentAlways(msg, workspaceRoot) ==
  IF ~Parses(msg.text)
  THEN [type |-> "unknown", title |-> "Unknown Tool", input |-> EmptyObject,
        path |-> "", line |-> NoLine, content |-> "", diff |-> ""]
  ELSE
    LET data == JsonParse(msg.text)
        toolType == IF Has(data, "tool") THEN data.tool ELSE "unknown"
        dpath == IF Has(data, "path") THEN data.path ELSE ""
        dcontent == IF Has(data, "content") THEN data.content ELSE ""
        title == IF dpath # "" THEN toolType \o " " \o dpath
                 ELSE IF Has(data, "command") THEN toolType \o ": " \o data.command
                 ELSE toolType
        filePath ==
          IF StartsWithSlash(dcontent) THEN dcontent
          ELSE IF dpath # "" /\ workspaceRoot # "" /\ ~StartsWithSlash(dpath)
               THEN IF dpath = Basename(workspaceRoot) THEN workspaceRoot
                    ELSE workspaceRoot \o "/" \o dpath
               ELSE dpath
        line == IF Has(data, "line") THEN data.line
                ELSE IF Has(data, "startLine") THEN data.startLine
                ELSE NoLine
        content == dcontent
        diff == IF Has(data, "diff") THEN data.diff ELSE ""
    IN [type |-> toolType, title |-> title, input |-> data, path |-> filePath,
        line |-> line, content |-> content, diff |-> diff]

\* parseToolInfo; path "" is undefined, workspaceRoot "" is undefined
parseToolInfo(msg, workspaceRoot) ==
  IF ~Parses(msg.text)
  THEN [type |-> "unknown", title |-> "Unknown Tool", input |-> EmptyObject,
        path |-> "", line |-> NoLine, content |-> "", diff |-> ""]
  ELSE
    LET data == JsonParse(msg.text)
        toolType == IF Has(data, "tool") THEN data.tool ELSE "unknown"
        dpath == IF Has(data, "path") THEN data.path ELSE ""
        dcontent == IF Has(data, "content") THEN data.content ELSE ""
        title == IF dpath # "" THEN toolType \o " " \o dpath
                 ELSE IF Has(data, "command") THEN toolType \o ": " \o data.command
                 ELSE toolType
        filePath ==
          IF StartsWithSlash(dcontent) THEN dcontent
          ELSE IF dpath # "" /\ workspaceRoot # "" /\ ~StartsWithSlash(dpath)
               THEN IF dpath = Basename(workspaceRoot) THEN workspaceRoot
                    ELSE workspaceRoot \o "/" \o dpath
               ELSE dpath
        line == IF Has(data, "line") THEN data.line
                ELSE IF Has(data, "startLine") THEN data.startLine
                ELSE NoLine
        content == IF dcontent # "" /\ ~StartsWithSlash(dcontent) THEN dcontent ELSE ""
        diff == IF Has(data, "diff") THEN data.diff ELSE ""
    IN [type |-> toolType, title |-> title, input |-> data, path |-> filePath,
        line |-> line, content |-> content, diff |-> diff]

\* buildToolCallContent
buildToolCallContent(toolInfo) ==
  (IF toolInfo.diff # "" /\ toolInfo.path # ""
   THEN <<[type |-> "diff", path |-> toolInfo.path, text |-> toolInfo.diff]>>
   ELSE <<>>)
  \o
  (IF toolInfo.content # ""
   THEN <<[type |-> "content", path |-> "", text |-> toolInfo.content]>>
   ELSE <<>>)

\* mapToolKind
mapToolKind(toolType) ==
  CASE toolType = "read_file" -> "read"
    [] toolType = "write_to_file" -> "edit"
    [] toolType = "replace_in_file" -> "edit"
    [] toolType = "execute_command" -> "execute"
    [] toolType = "search_files" -> "search"
    [] toolType = "list_files" -> "search"
    [] toolType = "browser_action" -> "fetch"
    [] toolType = "ask_followup_question" -> "other"
    [] OTHER -> "other"

\* the locations array the tool-call builders fill from a tool info
ToolLocations(toolInfo) ==
  IF toolInfo.path # ""
  THEN <<[path |-> toolInfo.path, line |-> toolInfo.line]>>
  ELSE <<>>

\* clineToolAskToAcpToolCall
clineToolAskToAcpToolCall(msg, workspaceRoot) ==
  LET toolInfo == parseToolInfo(msg, workspaceRoot) IN
  <<ToolCall(msg.ts, "pending", toolInfo.title, mapToolKind(toolInfo.type),
             ToolLocations(toolInfo), buildToolCallContent(toolInfo))>>

\* clineCommandAskToAcpToolCall
clineCommandAskToAcpToolCall(msg) ==
  LET command == IF msg.text # "" THEN msg.text ELSE "command" IN
  <<ToolCall(msg.ts, "pending", command, "execute", <<>>, <<>>)>>

\* clineSayToolToAcpToolCall; <<>> is null
clineSayToolToAcpToolCall(msg, workspaceRoot) ==
  LET toolInfo == parseToolInfo(msg, workspaceRoot) IN
  IF toolInfo.type = "unknown" THEN <<>>
  ELSE <<ToolCall(msg.ts, "completed", toolInfo.title, mapToolKind(toolInfo.type),
                  ToolLocations(toolInfo), buildToolCallContent(toolInfo))>>

\* clineSayToolToAcpToolCallInProgress
clineSayToolToAcpToolCallInProgress(msg, workspaceRoot) ==
  IF msg.say # "tool" THEN <<>>
  ELSE LET toolInfo == parseToolInfo(msg, workspaceRoot) IN
       IF toolInfo.type = "unknown" THEN <<>>
       ELSE <<ToolCall(msg.ts, "in_progress", toolInfo.title,
                       mapToolKind(toolInfo.type), <<>>, <<>>)>>

\* createToolCallUpdate
createToolCallUpdate(toolCallId, status) ==
  Event("sessionUpdate", "tool_call_update", toolCallId, status, "", "", "",
        <<>>, <<>>, <<>>)

\* createCurrentModeUpdate
createCurrentModeUpdate(modeId) ==
  Event("sessionUpdate", "current_mode_update", 0, "", modeId, "", "",
        <<>>, <<>>, <<>>)

\* sayType.includes("api_req")
IsApiReq(tag) == tag \in {"api_req_started", "api_req_finished", "api_req_retried",
                          "api_req_failed"}

\* clineMessageToAcpNotification; messageIndex is 0-based; <<>> is null
clineMessageToAcpNotification(msg, messageIndex, workspaceRoot) ==
  IF msg.type = "say" THEN
    IF IsApiReq(msg.say) THEN <<>>
    ELSE IF msg.say = "checkpoint_created" THEN <<>>
    ELSE IF msg.say = "user_feedback" THEN <<>>
    ELSE IF msg.say = "tool" THEN clineSayToolToAcpToolCall(msg, workspaceRoot)
    ELSE IF msg.say = "text" /\ messageIndex = 0 THEN <<>>
    ELSE IF msg.say = "reasoning" THEN
      LET text == extractTextFromMessage(msg) IN
      IF text # "" /\ ~looksLikeToolJson(text)
      THEN <<TextChunk("agent_thought_chunk", msg.ts, text)>>
      ELSE <<>>
    ELSE
      LET text == extractTextFromMessage(msg) IN
      IF text # "" /\ ~looksLikeToolJson(text)
      THEN <<TextChunk("agent_message_chunk", msg.ts, text)>>
      ELSE <<>>
  ELSE IF msg.type = "ask" THEN
    IF IsApiReq(msg.ask) THEN <<>>
    ELSE IF msg.ask \in {"resume_task", "resume_completed_task"} THEN <<>>
    ELSE IF msg.ask = "tool" THEN clineToolAskToAcpToolCall(msg, workspaceRoot)
    ELSE IF msg.ask = "command" THEN clineCommandAskToAcpToolCall(msg)
    ELSE IF msg.ask = "completion_result" THEN <<>>
    ELSE
      LET text == extractTextFromMessage(msg) IN
      IF text # "" THEN <<TextChunk("agent_message_chunk", msg.ts, text)>>
      ELSE <<>>
  ELSE <<>>

\* isTaskComplete
isTaskComplete(messages) ==
  /\ Len(messages) # 0
  /\ LET lastMessage == messages[Len(messages)] IN
       lastMessage.type = "ask" /\ lastMessage.ask = "completion_result"

\* mutant of isWaitingForUserInput: no message counts as waiting
isWaitingForUserInputNever(messages) == FALSE

\* isWaitingForUserInput
isWaitingForUserInput(messages) ==
  /\ Len(messages) # 0
  /\ LET lastMessage == messages[Len(messages)] IN
       /\ ~lastMessage.partial
       /\ lastMessage.type = "ask"
       /\ lastMessage.ask \in {"plan_mode_respond", "followup", "completion_result"}

\* mutant of needsApproval: only tool and command requests are approval kinds
needsApprovalToolOrCommand(messages) ==
  /\ Len(messages) # 0
  /\ LET lastMessage == messages[Len(messages)] IN
       /\ lastMessage.type = "ask"
       /\ ~lastMessage.partial
       /\ lastMessage.ask \in {"tool", "command"}

\* needsApproval
needsApproval(messages) ==
  /\ Len(messages) # 0
  /\ LET lastMessage == messages[Len(messages)] IN
       /\ lastMessage.type = "ask"
       /\ ~lastMessage.partial
       /\ lastMessage.ask \in {"tool", "command", "browser_action_launch",
                               "use_mcp_server"}

\* parseTaskProgressToPlanEntries, on the checklist texts of the model:
\* lines "- [x] a" and "- [ ] b" give a completed and a pending entry, a
\* text without a checkbox line gives none
parseTaskProgressToPlanEntries(text) ==
  IF text = Checklist
  THEN <<[content |-> "a", status |-> "completed"],
         [content |-> "b", status |-> "pending"]>>
  ELSE <<>>

PlanUpdate(entries) ==
  Event("sessionUpdate", "plan", 0, "", "", "", "", <<>>, <<>>, entries)

\* clineTaskProgressToAcpPlan; <<>> is null
clineTaskProgressToAcpPlan(msg) ==
  LET entries == parseTaskProgressToPlanEntries(msg.text) IN
  IF Len(entries) = 0 THEN <<>>
  ELSE <<PlanUpdate([i \in 1..Len(entries) |->
                      [content |-> entries[i].content,
                       status |-> entries[i].status,
                       priority |-> "medium"]])>>

\* getLatestTaskProgress: the index of the last task_progress message, 0 if none
getLatestTaskProgress(messages) ==
  LET idx == {i \in 1..Len(messages) : messages[i].say = "task_progress"} IN
  IF idx = {} THEN 0 ELSE CHOOSE i \in idx : \A j \in idx : j <= i

\* extractCostInfo; <<>> is null
extractCostInfo(msg) ==
  IF msg.say # "api_req_started" THEN <<>>
  ELSE IF ~Parses(msg.text) THEN <<>>
  ELSE LET data == JsonParse(msg.text) IN
       IF ~Has(data, "cost") THEN <<>>
       ELSE <<[tokensIn |-> NumOr(data, "tokensIn", 0),
               tokensOut |-> NumOr(data, "tokensOut", 0),
               cacheWrites |-> NumOr(data, "cacheWrites", 0),
               cacheReads |-> NumOr(data, "cacheReads", 0),
               cost |-> NumOr(data, "cost", 0)]>>

(***************************************************************************)
(* State.                                                                  *)
(***************************************************************************)
VARIABLES
  \* the backend: its state JSON (clineMessages, mode, workspaceRoots)
  messages, mode, workspaceRoot, modeFlips,
  \* the ClineSession entry
  cancelled, isTaskCreated, telemetry, sessionMode,
  \* prompt and processStreamingResponses: position and locals
  pc, exitReason, userInputText, existingTimestamps, sentMessageTimestamps,
  lastTaskProgressTs, currentMode, handledApprovalTimestamps,
  inProgressToolCalls, processedCostTimestamps, snap,
  \* observation: the turn's trace of outward interactions, the telemetry at
  \* the start of the turn, whether the snapshot consumed last equals the one
  \* consumed before it, and the number of prompt calls so far
  events, turnBase, sameAsPrev, turns,
  \* the agent's sessions: this.sessions by session id, the prompt call in
  \* flight for each id with its locals, what the last step sent to the
  \* client with the session id it carries, and the id that step ran for
  registry, calls, outbound, actor,
  \* observation of the agent's interface: how the latest prompt call on the
  \* session ended, and the latest other call (cancel, setSessionMode, or any
  \* operation naming a session id the agent does not hold)
  stopReason, lastCall,
  \* a second prompt call on the session, made while the first is still in
  \* flight: its position and the locals of its processStreamingResponses
  second

vars == <<messages, mode, workspaceRoot, modeFlips, cancelled, isTaskCreated,
          telemetry, pc, exitReason, userInputText, existingTimestamps,
          sentMessageTimestamps, lastTaskProgressTs, currentMode,
          handledApprovalTimestamps, inProgressToolCalls,
          processedCostTimestamps, snap, events, turnBase, sameAsPrev, turns,
          sessionMode, stopReason, lastCall, second, registry, calls,
          outbound, actor>>

\* the sessions held by id
regVars == <<registry, calls, outbound, actor>>

\* what no action of prompt or of the loop writes
apiVars == <<sessionMode, lastCall, second, regVars>>

backendVars == <<messages, mode, workspaceRoot, modeFlips>>

loopVars == <<sentMessageTimestamps, lastTaskProgressTs, currentMode,
              handledApprovalTimestamps, inProgressToolCalls,
              processedCostTimestamps, snap, sameAsPrev>>

\* the five counters newSession starts at zero
ZeroTelemetry ==
  [totalCost |-> 0, totalTokensIn |-> 0, totalTokensOut |-> 0,
   totalCacheWrites |-> 0, totalCacheReads |-> 0]

\* no snapshot consumed yet in this turn
NoSnapshot == [messages |-> <<>>, mode |-> "none", workspaceRoot |-> ""]

\* the state JSON the backend reports now
StateJson == [messages |-> messages, mode |-> mode, workspaceRoot |-> workspaceRoot]

\* a call of the agent's interface: the operation, whether the session id
\* it names is one the agent holds, its argument, how it ended, and the
\* backend calls it made
Call(op, known, arg, result, backend) ==
  [op |-> op, known |-> known, arg |-> arg, result |-> result, backend |-> backend]

NoCall == Call("none", TRUE, "", "none", <<>>)

\* no second prompt call in flight
NoSecond ==
  [pc |-> "idle", userInputText |-> "", existingTimestamps |-> {},
   sentMessageTimestamps |-> {}, lastTaskProgressTs |-> 0,
   currentMode |-> "none", handledApprovalTimestamps |-> {},
   inProgressToolCalls |-> {}, processedCostTimestamps |-> {},
   snap |-> NoSnapshot]

\* the session ids uuidv7 can return
SessionIds == {"s1", "s2"}

\* this.sessions[id] of an id the agent does not hold (undefined)
NoEntry == [id |-> "none"]

\* the entry newSession stores
NewEntry(sid) ==
  [id |-> sid, cancelled |-> FALSE, mode |-> "plan", isTaskCreated |-> FALSE,
   telemetry |-> ZeroTelemetry]

\* the workspace root the backend reports
WorkspaceRoots == {"/ws"}

\* the state after construction, with a backend that reports one of roots
InitAt(roots) ==
  /\ messages = <<>>
  /\ mode = "plan"
  /\ workspaceRoot \in roots
  /\ modeFlips = 0
  /\ cancelled = FALSE
  /\ isTaskCreated = FALSE
  /\ telemetry = ZeroTelemetry
  /\ pc = "idle"
  /\ exitReason = "none"
  /\ userInputText = ""
  /\ existingTimestamps = {}
  /\ sentMessageTimestamps = {}
  /\ lastTaskProgressTs = 0
  /\ currentMode = "none"
  /\ handledApprovalTimestamps = {}
  /\ inProgressToolCalls = {}
  /\ processedCostTimestamps = {}
  /\ snap = NoSnapshot
  /\ events = <<>>
  /\ turnBase = ZeroTelemetry
  /\ sameAsPrev = FALSE
  /\ turns = 0
  /\ sessionMode = "plan"
  /\ stopReason = "none"
  /\ lastCall = NoCall
  /\ second = NoSecond
  /\ registry = [sid \in SessionIds |-> NoEntry]
  /\ calls = [sid \in SessionIds |-> NoSecond]
  /\ outbound = <<>>
  /\ actor = "none"

Init == InitAt(WorkspaceRoots)

(***************************************************************************)
(* The backend.  Its history only grows: a message is appended with a      *)
(* timestamp larger than all before it, a partial message becomes          *)
(* complete under the same timestamp, an api_req_started message gets its  *)
(* cost data when the request completes.                                   *)
(***************************************************************************)
FirstTs == 1000

\* the messages the backend may append: [type, say, ask, text, partial]
Templates ==
  {[type |-> "say", say |-> "text", ask |-> "", text |-> t, partial |-> p] :
      t \in {"Hi there"}, p \in BOOLEAN}
  \cup
  {[type |-> "say", say |-> "text", ask |-> "", text |-> t, partial |-> FALSE] :
      t \in PromptTexts}
  \cup
  {[type |-> "say", say |-> "reasoning", ask |-> "", text |-> "Hmm", partial |-> FALSE]}
  \cup
  {[type |-> "say", say |-> "tool", ask |-> "", text |-> ToolJson, partial |-> p] :
      p \in BOOLEAN}
  \cup
  {[type |-> "say", say |-> "tool", ask |-> "", text |-> ToolJsonCut, partial |-> TRUE]}
  \cup
  {[type |-> "say", say |-> "api_req_started", ask |-> "", text |-> t, partial |-> FALSE] :
      t \in {NoCostJson, CostJson, CostZeroJson}}
  \cup
  {[type |-> "say", say |-> "task_progress", ask |-> "", text |-> Checklist,
    partial |-> FALSE]}
  \cup
  {[type |-> "ask", say |-> "", ask |-> "tool", text |-> ToolJson, partial |-> p] :
      p \in BOOLEAN}
  \cup
  {[type |-> "ask", say |-> "", ask |-> a, text |-> "npm test", partial |-> FALSE] :
      a \in {"command", "browser_action_launch"}}
  \cup
  {[type |-> "ask", say |-> "", ask |-> "plan_mode_respond", text |-> ResponseJson,
    partial |-> p] : p \in BOOLEAN}
  \cup
  {[type |-> "ask", say |-> "", ask |-> "completion_result", text |-> "",
    partial |-> FALSE]}

sessionVars == <<cancelled, isTaskCreated, telemetry>>

promptVars == <<pc, exitReason, userInputText, existingTimestamps, events,
                turnBase, turns, stopReason>>

BackendAppend(tpl) ==
  /\ isTaskCreated
  /\ Len(messages) < MaxMsgs
  /\ messages' = Append(messages,
        Msg(FirstTs + Len(messages), tpl.type, tpl.say, tpl.ask, tpl.text, tpl.partial))
  /\ UNCHANGED <<mode, workspaceRoot, modeFlips, sessionVars, promptVars, loopVars,
                 apiVars>>

\* the text of a message once it is complete
FinalText(text) == IF text = ToolJsonCut THEN ToolJson ELSE text

BackendComplete(i) ==
  /\ i \in 1..Len(messages)
  /\ messages[i].partial
  /\ messages' = [messages EXCEPT ![i].partial = FALSE,
                                  ![i].text = FinalText(messages[i].text)]
  /\ UNCHANGED <<mode, workspaceRoot, modeFlips, sessionVars, promptVars, loopVars,
                 apiVars>>

BackendCost(i, text) ==
  /\ i \in 1..Len(messages)
  /\ messages[i].say = "api_req_started"
  /\ messages[i].text = NoCostJson
  /\ messages' = [messages EXCEPT ![i].text = text]
  /\ UNCHANGED <<mode, workspaceRoot, modeFlips, sessionVars, promptVars, loopVars,
                 apiVars>>

BackendToggleMode ==
  /\ isTaskCreated
  /\ modeFlips < MaxModeFlips
  /\ modeFlips' = modeFlips + 1
  /\ mode' = IF mode = "plan" THEN "act" ELSE "plan"
  /\ UNCHANGED <<messages, workspaceRoot, sessionVars, promptVars, loopVars,
                 apiVars>>

(***************************************************************************)
(* cline-acp-agent.ts: prompt                                              *)
(***************************************************************************)
\* the timestamps prompt collects from getLatestState before it submits
SeedTimestamps(isCreated, msgs) ==
  IF isCreated THEN {msgs[i].ts : i \in {j \in 1..Len(msgs) : msgs[j].ts # 0}}
  ELSE {}

BackendCall(name, responseType, ts, text) ==
  Event(name, "", ts, responseType, text, "", "", <<>>, <<>>, <<>>)

\* mutant of SubmitCall: a new task whatever the flag
SubmitCallAlwaysNewTask(isCreated, text) == BackendCall("newTask", "", 0, text)

\* if (!session.isTaskCreated) newTask(...) else askResponse(MESSAGE_RESPONSE)
SubmitCall(isCreated, text) ==
  IF isCreated THEN BackendCall("askResponse", "messageResponse", 0, text)
  ELSE BackendCall("newTask", "", 0, text)

\* mutant of EndTurn: a cancelled turn reported as such
EndTurnOrCancelled(flag) == IF flag THEN "cancelled" ELSE "end_turn"

\* return { stopReason: "end_turn" }
EndTurn(flag) == "end_turn"

\* prompt, up to the await of getLatestState
PromptStart(text) ==
  /\ pc = "idle"
  /\ turns < MaxTurns
  /\ turns' = turns + 1
  /\ cancelled' = FALSE
  /\ userInputText' = text
  /\ existingTimestamps' = SeedTimestamps(isTaskCreated, messages)
  /\ events' = <<>>
  /\ turnBase' = telemetry
  /\ exitReason' = "none"
  /\ pc' = "seeded"
  /\ stopReason' = "none"
  /\ UNCHANGED <<backendVars, isTaskCreated, telemetry, loopVars, apiVars>>

\* prompt, from the submission to the backend to the first await of the
\* snapshot stream: newTask or askResponse, the empty plan, and the entry of
\* processStreamingResponses with its fresh tracking sets
PromptSubmit ==
  /\ pc = "seeded"
  /\ isTaskCreated' = TRUE
  /\ events' = events \o
       <<SubmitCall(isTaskCreated, userInputText), PlanUpdate(<<>>)>>
  /\ IF cancelled
     THEN /\ pc' = "ended"
          /\ exitReason' = "early"
          /\ UNCHANGED loopVars
     ELSE /\ pc' = "running"
          /\ exitReason' = "none"
          /\ sentMessageTimestamps' = existingTimestamps
          /\ lastTaskProgressTs' = 0
          /\ currentMode' = "none"
          /\ handledApprovalTimestamps' = {}
          /\ inProgressToolCalls' = {}
          /\ processedCostTimestamps' = {}
          /\ snap' = NoSnapshot
          /\ sameAsPrev' = FALSE
  /\ UNCHANGED <<backendVars, cancelled, telemetry, userInputText,
                 existingTimestamps, turnBase, turns, stopReason, apiVars>>

\* prompt, when the backend rejects newTask or askResponse: the call was
\* made, the await throws, and prompt throws with it before isTaskCreated
\* is set and before anything is sent to the client
PromptSubmitFails ==
  /\ pc = "seeded"
  /\ events' = Append(events, SubmitCall(isTaskCreated, userInputText))
  /\ pc' = "idle"
  /\ exitReason' = "none"
  /\ stopReason' = "throws"
  /\ existingTimestamps' = {}
  /\ UNCHANGED <<backendVars, sessionVars, userInputText, turnBase, turns,
                 loopVars, apiVars>>

\* prompt, after processStreamingResponses returned: the closing empty chunk
\* and the end_turn response; the locals of the call are gone
PromptFinish ==
  /\ pc = "ended"
  /\ events' = Append(events, TextChunk("agent_message_chunk", 0, ""))
  /\ pc' = "idle"
  /\ existingTimestamps' = {}
  /\ sentMessageTimestamps' = {}
  /\ lastTaskProgressTs' = 0
  /\ currentMode' = "none"
  /\ handledApprovalTimestamps' = {}
  /\ inProgressToolCalls' = {}
  /\ processedCostTimestamps' = {}
  /\ snap' = NoSnapshot
  /\ sameAsPrev' = FALSE
  /\ stopReason' = EndTurn(cancelled)
  /\ UNCHANGED <<backendVars, sessionVars, exitReason, userInputText,
                 turnBase, turns, apiVars>>

\* cancel: the flag; the cancelTask call reaches the backend, whose
\* reaction is one of the backend's own steps
Cancel ==
  /\ cancelled' = TRUE
  /\ lastCall' = Call("cancel", TRUE, "", "returns", <<"cancelTask">>)
  /\ UNCHANGED <<backendVars, isTaskCreated, telemetry, promptVars, loopVars,
                 sessionMode, regVars, second>>

(***************************************************************************)
(* cline-acp-agent.ts: setSessionMode, and the operations on a session id  *)
(* the agent does not hold                                                 *)
(***************************************************************************)
\* the mode ids a client sends
ModeIds == {"plan", "act", "bypassPermissions"}

\* mutant of TogglePlanActMode: the other mode is asked for
TogglePlanActModeSwapped(modeId) ==
  IF modeId = "plan" THEN <<"togglePlanActModeProto:ACT">>
  ELSE IF modeId = "act" THEN <<"togglePlanActModeProto:PLAN">>
  ELSE <<>>

\* mutant of TogglePlanActMode: the backend is left alone
TogglePlanActModeNever(modeId) == <<>>

\* the switch on params.modeId: the backend call setSessionMode makes
TogglePlanActMode(modeId) ==
  IF modeId = "plan" THEN <<"togglePlanActModeProto:PLAN">>
  ELSE IF modeId = "act" THEN <<"togglePlanActModeProto:ACT">>
  ELSE <<>>

\* setSessionMode on the session: the backend is told to switch (and does,
\* the call is awaited), then the mode id is stored.  The switches of the
\* backend's mode are counted against their bound.
SetSessionMode(modeId) ==
  /\ mode' = IF modeId \in {"plan", "act"} THEN modeId ELSE mode
  /\ mode' # mode => modeFlips < MaxModeFlips
  /\ modeFlips' = IF mode' # mode THEN modeFlips + 1 ELSE modeFlips
  /\ sessionMode' = modeId
  /\ lastCall' = Call("setSessionMode", TRUE, modeId, "returns",
                      TogglePlanActMode(modeId))
  /\ UNCHANGED <<messages, workspaceRoot, sessionVars, promptVars, loopVars,
                 second, regVars>>

\* setSessionMode on the session when the backend rejects the toggle: the
\* await throws before the mode id is stored
SetSessionModeFails(modeId) ==
  /\ modeId \in {"plan", "act"}
  /\ lastCall' = Call("setSessionMode", TRUE, modeId, "throws",
                      TogglePlanActMode(modeId))
  /\ UNCHANGED <<backendVars, sessionVars, promptVars, loopVars, sessionMode,
                 regVars,
                 second>>

\* prompt with an unknown session id: throws "Session not found"
PromptUnknown ==
  /\ lastCall' = Call("prompt", FALSE, "", "throws", <<>>)
  /\ UNCHANGED <<backendVars, sessionVars, promptVars, loopVars, sessionMode,
                 regVars,
                 second>>

\* setSessionMode with an unknown session id: throws "Session not found"
SetSessionModeUnknown(modeId) ==
  /\ lastCall' = Call("setSessionMode", FALSE, modeId, "throws", <<>>)
  /\ UNCHANGED <<backendVars, sessionVars, promptVars, loopVars, sessionMode,
                 regVars,
                 second>>

\* cancel with an unknown session id: returns
CancelUnknown ==
  /\ lastCall' = Call("cancel", FALSE, "", "returns", <<>>)
  /\ UNCHANGED <<backendVars, sessionVars, promptVars, loopVars, sessionMode,
                 regVars,
                 second>>

(***************************************************************************)
(* cline-acp-agent.ts: processStreamingResponses, one snapshot             *)
(***************************************************************************)
\* mutant of ModeChanged: the first observed mode is compared as well
ModeChangedFromNull(cur, newMode) == newMode # cur

\* currentMode !== null && newMode !== currentMode
ModeChanged(cur, newMode) == cur # "none" /\ newMode # cur

\* mutant of CostUnprocessed: the processed set is not consulted
CostUnprocessedAlways(msg, processed) == msg.ts # 0

\* msg.ts && !processedCostTimestamps.has(msg.ts)
CostUnprocessed(msg, processed) == msg.ts # 0 /\ msg.ts \notin processed

\* mutant of AddCost: the counters are overwritten, not added to
AddCostOverwrites(tel, costInfo) ==
  [totalCost |-> costInfo.cost,
   totalTokensIn |-> costInfo.tokensIn,
   totalTokensOut |-> costInfo.tokensOut,
   totalCacheWrites |-> costInfo.cacheWrites,
   totalCacheReads |-> costInfo.cacheReads]

AddCost(tel, costInfo) ==
  [totalCost |-> tel.totalCost + costInfo.cost,
   totalTokensIn |-> tel.totalTokensIn + costInfo.tokensIn,
   totalTokensOut |-> tel.totalTokensOut + costInfo.tokensOut,
   totalCacheWrites |-> tel.totalCacheWrites + costInfo.cacheWrites,
   totalCacheReads |-> tel.totalCacheReads + costInfo.cacheReads]

\* the cost loop over the snapshot's messages
RECURSIVE FoldCosts(_, _, _, _)
FoldCosts(msgs, i, processed, tel) ==
  IF i > Len(msgs) THEN [processed |-> processed, telemetry |-> tel]
  ELSE LET msg == msgs[i]
           costInfo == extractCostInfo(msg)
       IN IF CostUnprocessed(msg, processed) /\ costInfo # <<>>
          THEN FoldCosts(msgs, i + 1, processed \cup {msg.ts},
                         AddCost(tel, costInfo[1]))
          ELSE FoldCosts(msgs, i + 1, processed, tel)

\* mutant of TaskProgressChanged: the tracked timestamp is not compared
TaskProgressChangedAlways(msgs, lastTs) == getLatestTaskProgress(msgs) # 0

\* latestTaskProgress && latestTaskProgress.ts !== lastTaskProgressTs
TaskProgressChanged(msgs, lastTs) ==
  LET i == getLatestTaskProgress(msgs) IN i # 0 /\ msgs[i].ts # lastTs

\* mutant of AlreadySent: the sent set is not consulted
AlreadySentNever(msg, sent) == FALSE

\* msg.ts && sentMessageTimestamps.has(msg.ts)
AlreadySent(msg, sent) == msg.ts # 0 /\ msg.ts \in sent

\* mutant of IsEchoedInput: no message is taken for the echo
IsEchoedInputNever(msg, userText) == FALSE

\* the echoed user input: say:text whose text is the submitted text
IsEchoedInput(msg, userText) ==
  msg.type = "say" /\ msg.say = "text" /\ msg.text = userText

\* a partial say:tool message not yet announced as in_progress
PartialToolUnannounced(msg, inProgress) ==
  msg.type = "say" /\ msg.say = "tool" /\ msg.ts # 0 /\ msg.ts \notin inProgress

\* a complete say:tool message that was announced as in_progress
WasInProgress(msg, inProgress) ==
  msg.type = "say" /\ msg.say = "tool" /\ msg.ts # 0 /\ msg.ts \in inProgress

\* mutant of MarkSent: the timestamp is not recorded
MarkSentForgets(msg, sent) == sent

\* sentMessageTimestamps.add(msg.ts), under if (msg.ts)
MarkSent(msg, sent) == IF msg.ts # 0 THEN sent \cup {msg.ts} ELSE sent

\* mutant of Emit: the notification is put in front of the ones before it
EmitInFront(out, note) == note \o out

\* await this.client.sessionUpdate(notification), when there is one
Emit(out, note) == out \o note

\* the message loop, from index i (1-based; the code's index is i - 1)
RECURSIVE ScanMessages(_, _, _, _, _, _, _)
ScanMessages(msgs, i, root, userText, sent, inProgress, out) ==
  IF i > Len(msgs)
  THEN [sent |-> sent, inProgress |-> inProgress, out |-> out]
  ELSE
    LET msg == msgs[i] IN
    IF msg.partial THEN
      LET note == clineSayToolToAcpToolCallInProgress(msg, root) IN
      IF PartialToolUnannounced(msg, inProgress) /\ note # <<>>
      THEN ScanMessages(msgs, i + 1, root, userText, sent,
                        inProgress \cup {msg.ts}, Emit(out, note))
      ELSE ScanMessages(msgs, i + 1, root, userText, sent, inProgress, out)
    ELSE IF AlreadySent(msg, sent) THEN
      ScanMessages(msgs, i + 1, root, userText, sent, inProgress, out)
    ELSE IF IsEchoedInput(msg, userText) THEN
      ScanMessages(msgs, i + 1, root, userText, MarkSent(msg, sent), inProgress, out)
    ELSE IF msg.type = "say" /\ msg.say = "task_progress" THEN
      ScanMessages(msgs, i + 1, root, userText, MarkSent(msg, sent), inProgress, out)
    ELSE IF WasInProgress(msg, inProgress) THEN
      ScanMessages(msgs, i + 1, root, userText, MarkSent(msg, sent),
                   inProgress \ {msg.ts},
                   Emit(out, clineSayToolToAcpToolCall(msg, root)))
    ELSE
      ScanMessages(msgs, i + 1, root, userText, MarkSent(msg, sent), inProgress,
                   Emit(out, clineMessageToAcpNotification(msg, i - 1, root)))

\* mutant of LastMessageIsNew: the pre-turn timestamps are not consulted
LastMessageIsNewAlways(msgs, existing) == Len(msgs) > 0 /\ msgs[Len(msgs)].ts # 0

\* lastMessage?.ts && !existingTimestamps.has(lastMessage.ts)
LastMessageIsNew(msgs, existing) ==
  /\ Len(msgs) > 0
  /\ msgs[Len(msgs)].ts # 0
  /\ msgs[Len(msgs)].ts \notin existing

\* mutant of ApprovalUnhandled: the handled set is not consulted
ApprovalUnhandledAlways(ts, handled) == ts # 0

\* approvalTs && !handledApprovalTimestamps.has(approvalTs)
ApprovalUnhandled(ts, handled) == ts # 0 /\ ts \notin handled

\* the requestPermission call of handleApprovalRequest
\* mutant of SnapshotOut: the plan is sent after the message loop
SnapshotOutPlanLast(modeOut, planOut, scanOut) == modeOut \o scanOut \o planOut

\* what one iteration sends before it looks at the last message: the mode
\* update, then the plan, then what the message loop sends
SnapshotOut(modeOut, planOut, scanOut) == modeOut \o planOut \o scanOut

PermissionRequest(lastMessage) ==
  Event("requestPermission", "", lastMessage.ts, "", "", "",
        parseToolInfo(lastMessage, "").title, <<>>, <<>>, <<>>)

\* mutant of CancelObserved: the flag is not looked at
CancelNeverObserved(flag) == FALSE

\* if (session.cancelled) break, at the top of each iteration
CancelObserved(flag) == flag

\* one iteration of the for-await loop: the snapshot is the state the
\* backend reports now
ProcessSnapshot ==
  /\ pc = "running"
  /\ IF CancelObserved(cancelled)
     THEN /\ pc' = "ended"
          /\ exitReason' = "cancel"
          /\ UNCHANGED <<telemetry, events, loopVars>>
     ELSE
       LET state == StateJson
           msgs == state.messages
           newMode == state.mode
           modeOut == IF ModeChanged(currentMode, newMode)
                      THEN <<createCurrentModeUpdate(newMode)>> ELSE <<>>
           cost == FoldCosts(msgs, 1, processedCostTimestamps, telemetry)
           progressed == TaskProgressChanged(msgs, lastTaskProgressTs)
           latest == getLatestTaskProgress(msgs)
           planOut == IF progressed THEN clineTaskProgressToAcpPlan(msgs[latest])
                      ELSE <<>>
           scan == ScanMessages(msgs, 1, state.workspaceRoot, userInputText,
                                sentMessageTimestamps, inProgressToolCalls, <<>>)
           isNew == LastMessageIsNew(msgs, existingTimestamps)
           approval == isNew /\ needsApproval(msgs)
           request == approval /\
                      ApprovalUnhandled(msgs[Len(msgs)].ts, handledApprovalTimestamps)
           out == SnapshotOut(modeOut, planOut, scan.out)
       IN
         /\ sameAsPrev' = (snap = state)
         /\ snap' = state
         /\ currentMode' = newMode
         /\ processedCostTimestamps' = cost.processed
         /\ telemetry' = cost.telemetry
         /\ lastTaskProgressTs' = IF progressed THEN msgs[latest].ts
                                  ELSE lastTaskProgressTs
         /\ sentMessageTimestamps' = scan.sent
         /\ inProgressToolCalls' = scan.inProgress
         /\ IF request
            THEN /\ handledApprovalTimestamps' =
                      handledApprovalTimestamps \cup {msgs[Len(msgs)].ts}
                 /\ events' = events \o out \o <<PermissionRequest(msgs[Len(msgs)])>>
                 /\ pc' = "awaiting-approval"
                 /\ exitReason' = exitReason
            ELSE /\ UNCHANGED handledApprovalTimestamps
                 /\ events' = events \o out
                 /\ IF approval THEN pc' = "running" /\ exitReason' = exitReason
                    ELSE IF isNew /\ isWaitingForUserInput(msgs)
                         THEN pc' = "ended" /\ exitReason' = "wait"
                    ELSE IF isNew /\ isTaskComplete(msgs)
                         THEN pc' = "ended" /\ exitReason' = "complete"
                    ELSE pc' = "running" /\ exitReason' = exitReason
  /\ UNCHANGED <<backendVars, cancelled, isTaskCreated, userInputText,
                 existingTimestamps, turnBase, turns, stopReason, apiVars>>

\* mutant of AfterStreamError: the loop goes on as if subscribed again
AfterStreamErrorResumes == "running"

\* catch (error) { log }: the loop is left and the function finishes
AfterStreamError == "ended"

\* the stream closes or throws while the loop waits for the next snapshot
StreamEnd ==
  /\ pc = "running"
  /\ pc' = AfterStreamError
  /\ exitReason' = "error"
  /\ UNCHANGED <<backendVars, sessionVars, userInputText, existingTimestamps,
                 events, turnBase, turns, loopVars, stopReason, apiVars>>

(***************************************************************************)
(* cline-acp-agent.ts: handleApprovalRequest, after requestPermission      *)
(***************************************************************************)
\* the outcomes requestPermission can return
Outcomes ==
  {[outcome |-> "selected", optionId |-> o] : o \in {"allow", "allow_always", "reject"}}
  \cup {[outcome |-> "cancelled", optionId |-> ""]}

\* mutant of IsAllow: the selected option is not looked at
IsAllowAnySelected(outcome) == outcome.outcome = "selected"

\* outcome?.outcome === "selected" && (optionId === "allow" || "allow_always")
IsAllow(outcome) ==
  outcome.outcome = "selected" /\ outcome.optionId \in {"allow", "allow_always"}

PermissionOutcome(ts, outcome) ==
  Event("permissionOutcome", "", ts, outcome.outcome, outcome.optionId, "", "",
        <<>>, <<>>, <<>>)

\* mutant of ApprovalReply: a cancelled session drops the decision
ApprovalReplyUnlessCancelled(lastMessage, outcome) ==
  IF cancelled THEN <<>>
  ELSE IF IsAllow(outcome)
  THEN <<BackendCall("askResponse", "yesButtonClicked", lastMessage.ts, "")>>
  ELSE <<BackendCall("askResponse", "noButtonClicked", lastMessage.ts, ""),
         createToolCallUpdate(lastMessage.ts, "failed")>>

\* what handleApprovalRequest does once the permission request returned
ApprovalReply(lastMessage, outcome) ==
  IF IsAllow(outcome)
  THEN <<BackendCall("askResponse", "yesButtonClicked", lastMessage.ts, "")>>
  ELSE <<BackendCall("askResponse", "noButtonClicked", lastMessage.ts, ""),
         createToolCallUpdate(lastMessage.ts, "failed")>>

PermissionReturn(outcome) ==
  /\ pc = "awaiting-approval"
  /\ LET lastMessage == snap.messages[Len(snap.messages)] IN
       events' = events \o <<PermissionOutcome(lastMessage.ts, outcome)>>
                        \o ApprovalReply(lastMessage, outcome)
  /\ pc' = "running"
  /\ UNCHANGED <<backendVars, sessionVars, exitReason, userInputText,
                 existingTimestamps, turnBase, turns, loopVars, stopReason,
                 apiVars>>

(***************************************************************************)
(* cline-acp-agent.ts: prompt called again on the session before the first *)
(* call returned.  Nothing in prompt waits for an earlier call: the second *)
(* call runs the same code on the same session entry with locals of its    *)
(* own, and both write to the one outbound stream of the session.          *)
(***************************************************************************)
SecondStart(text) ==
  /\ pc # "idle"
  /\ second.pc = "idle"
  /\ turns < MaxTurns
  /\ turns' = turns + 1
  /\ cancelled' = FALSE
  /\ second' = [NoSecond EXCEPT
                  !.pc = "seeded",
                  !.userInputText = text,
                  !.existingTimestamps = SeedTimestamps(isTaskCreated, messages)]
  /\ UNCHANGED <<backendVars, isTaskCreated, telemetry, pc, exitReason,
                 userInputText, existingTimestamps, events, turnBase,
                 stopReason, loopVars, sessionMode, regVars, lastCall>>

SecondSubmit ==
  /\ second.pc = "seeded"
  /\ isTaskCreated' = TRUE
  /\ events' = events \o
       <<SubmitCall(isTaskCreated, second.userInputText), PlanUpdate(<<>>)>>
  /\ second' = IF cancelled
               THEN [second EXCEPT !.pc = "ended"]
               ELSE [second EXCEPT
                       !.pc = "running",
                       !.sentMessageTimestamps = second.existingTimestamps]
  /\ UNCHANGED <<backendVars, cancelled, telemetry, pc, exitReason,
                 userInputText, existingTimestamps, turnBase, turns,
                 stopReason, loopVars, sessionMode, regVars, lastCall>>

SecondSubmitFails ==
  /\ second.pc = "seeded"
  /\ events' = Append(events, SubmitCall(isTaskCreated, second.userInputText))
  /\ second' = NoSecond
  /\ UNCHANGED <<backendVars, sessionVars, pc, exitReason, userInputText,
                 existingTimestamps, turnBase, turns, stopReason, loopVars,
                 sessionMode, regVars, lastCall>>

\* one iteration of the second call's for-await loop
SecondSnapshot ==
  /\ second.pc = "running"
  /\ IF CancelObserved(cancelled)
     THEN /\ second' = [second EXCEPT !.pc = "ended"]
          /\ UNCHANGED <<telemetry, events>>
     ELSE
       LET state == StateJson
           msgs == state.messages
           newMode == state.mode
           modeOut == IF ModeChanged(second.currentMode, newMode)
                      THEN <<createCurrentModeUpdate(newMode)>> ELSE <<>>
           cost == FoldCosts(msgs, 1, second.processedCostTimestamps, telemetry)
           progressed == TaskProgressChanged(msgs, second.lastTaskProgressTs)
           latest == getLatestTaskProgress(msgs)
           planOut == IF progressed THEN clineTaskProgressToAcpPlan(msgs[latest])
                      ELSE <<>>
           scan == ScanMessages(msgs, 1, state.workspaceRoot, second.userInputText,
                                second.sentMessageTimestamps,
                                second.inProgressToolCalls, <<>>)
           isNew == LastMessageIsNew(msgs, second.existingTimestamps)
           approval == isNew /\ needsApproval(msgs)
           request == approval /\
                      ApprovalUnhandled(msgs[Len(msgs)].ts,
                                        second.handledApprovalTimestamps)
           out == SnapshotOut(modeOut, planOut, scan.out)
           ends == ~approval /\ isNew /\
                   (isWaitingForUserInput(msgs) \/ isTaskComplete(msgs))
       IN
         /\ telemetry' = cost.telemetry
         /\ events' = events \o out \o
                         (IF request THEN <<PermissionRequest(msgs[Len(msgs)])>>
                          ELSE <<>>)
         /\ second' = [second EXCEPT
               !.snap = state,
               !.currentMode = newMode,
               !.processedCostTimestamps = cost.processed,
               !.lastTaskProgressTs = IF progressed THEN msgs[latest].ts
                                      ELSE second.lastTaskProgressTs,
               !.sentMessageTimestamps = scan.sent,
               !.inProgressToolCalls = scan.inProgress,
               !.handledApprovalTimestamps =
                  IF request
                  THEN second.handledApprovalTimestamps \cup {msgs[Len(msgs)].ts}
                  ELSE second.handledApprovalTimestamps,
               !.pc = IF request THEN "awaiting-approval"
                      ELSE IF ends THEN "ended" ELSE "running"]
  /\ UNCHANGED <<backendVars, cancelled, isTaskCreated, pc, exitReason,
                 userInputText, existingTimestamps, turnBase, turns,
                 stopReason, loopVars, sessionMode, regVars, lastCall>>

SecondStreamEnd ==
  /\ second.pc = "running"
  /\ second' = [second EXCEPT !.pc = AfterStreamError]
  /\ UNCHANGED <<backendVars, sessionVars, promptVars, loopVars, sessionMode,
                 regVars,
                 lastCall>>

SecondPermissionReturn(outcome) ==
  /\ second.pc = "awaiting-approval"
  /\ LET lastMessage == second.snap.messages[Len(second.snap.messages)] IN
       events' = events \o <<PermissionOutcome(lastMessage.ts, outcome)>>
                        \o ApprovalReply(lastMessage, outcome)
  /\ second' = [second EXCEPT !.pc = "running"]
  /\ UNCHANGED <<backendVars, sessionVars, pc, exitReason, userInputText,
                 existingTimestamps, turnBase, turns, stopReason, loopVars,
                 sessionMode, regVars, lastCall>>

SecondFinish ==
  /\ second.pc = "ended"
  /\ events' = Append(events, TextChunk("agent_message_chunk", 0, ""))
  /\ second' = NoSecond
  /\ stopReason' = EndTurn(cancelled)
  /\ UNCHANGED <<backendVars, sessionVars, pc, exitReason, userInputText,
                 existingTimestamps, turnBase, turns, loopVars, sessionMode,
                 regVars,
                 lastCall>>

Next ==
  \/ \E text \in PromptTexts : PromptStart(text)
  \/ PromptSubmit
  \/ PromptSubmitFails
  \/ PromptFinish
  \/ Cancel
  \/ ProcessSnapshot
  \/ StreamEnd
  \/ \E outcome \in Outcomes : PermissionReturn(outcome)
  \/ \E tpl \in Templates : BackendAppend(tpl)
  \/ \E i \in 1..MaxMsgs : BackendComplete(i)
  \/ \E i \in 1..MaxMsgs, text \in {CostJson, CostZeroJson} : BackendCost(i, text)
  \/ BackendToggleMode

Spec == Init /\ [][Next]_vars

(***************************************************************************)
(* The agent's interface with a client that also switches modes and names  *)
(* session ids the agent does not hold, against a backend that only        *)
(* answers with text.                                                      *)
(***************************************************************************)
ApiTemplates == {t \in Templates : t.say = "text" /\ ~t.partial /\ t.text = "Hi there"}

NextApi ==
  \/ \E text \in PromptTexts : PromptStart(text)
  \/ PromptSubmit
  \/ PromptSubmitFails
  \/ PromptFinish
  \/ Cancel
  \/ ProcessSnapshot
  \/ StreamEnd
  \/ \E tpl \in ApiTemplates : BackendAppend(tpl)
  \/ BackendToggleMode
  \/ \E modeId \in ModeIds : SetSessionMode(modeId)
  \/ \E modeId \in ModeIds : SetSessionModeFails(modeId)
  \/ PromptUnknown
  \/ \E modeId \in ModeIds : SetSessionModeUnknown(modeId)
  \/ CancelUnknown

SpecApi == Init /\ [][NextApi]_vars

(***************************************************************************)
(* The session with a client that does not wait for a prompt to return     *)
(* before it prompts again.                                                *)
(***************************************************************************)
OverlapTemplates ==
  {t \in Templates :
     \/ t.say = "text" /\ t.text = "Hi there"
     \/ t.ask = "command"}

NextOverlap ==
  \/ \E text \in PromptTexts : PromptStart(text)
  \/ PromptSubmit
  \/ PromptSubmitFails
  \/ PromptFinish
  \/ Cancel
  \/ ProcessSnapshot
  \/ StreamEnd
  \/ \E outcome \in Outcomes : PermissionReturn(outcome)
  \/ \E text \in PromptTexts : SecondStart(text)
  \/ SecondSubmit
  \/ SecondSubmitFails
  \/ SecondSnapshot
  \/ SecondStreamEnd
  \/ \E outcome \in Outcomes : SecondPermissionReturn(outcome)
  \/ SecondFinish
  \/ \E tpl \in OverlapTemplates : BackendAppend(tpl)
  \/ \E i \in 1..MaxMsgs : BackendComplete(i)

SpecOverlap == Init /\ [][NextOverlap]_vars

(***************************************************************************)
(* Reading the trace.                                                      *)
(***************************************************************************)
Timestamps == {FirstTs + k : k \in 0..(MaxMsgs - 1)}

IsNotification(e) == e.ev = "sessionUpdate"

\* a notification made from one message by the message loop
IsScanNote(e) ==
  /\ e.ev = "sessionUpdate"
  /\ e.ts # 0
  /\ e.sessionUpdate \in {"agent_message_chunk", "agent_thought_chunk", "tool_call"}

\* a notification made from the complete form of a message
IsCompleteFormNote(e) ==
  /\ IsScanNote(e)
  /\ e.sessionUpdate = "tool_call" => e.status \in {"pending", "completed"}

IsPermissionRequest(e) == e.ev = "requestPermission"

IsApprovalResponse(e) ==
  e.ev = "askResponse" /\ e.status \in {"yesButtonClicked", "noButtonClicked"}

\* the indices of the trace whose entry is of a kind and stems from ts
RequestsFor(ts) == {i \in DOMAIN events : IsPermissionRequest(events[i]) /\ events[i].ts = ts}

ResponsesFor(ts) == {i \in DOMAIN events : IsApprovalResponse(events[i]) /\ events[i].ts = ts}

CompleteFormNotesFor(ts) ==
  {i \in DOMAIN events : IsCompleteFormNote(events[i]) /\ events[i].ts = ts}

\* a turn is under way and its loop has consumed at least one snapshot
Consumed == pc \in {"running", "awaiting-approval", "ended"} /\ snap # NoSnapshot

(***************************************************************************)
(* Claims on the snapshot loop.                                            *)
(***************************************************************************)

\* C1 (idempotence): when the loop waits for its next snapshot, is not
\* cancelled, and the state the backend reports is the snapshot it consumed
\* last, no step adds to the trace (no notification, no permission request)
\* and none changes the telemetry.
C1_Idempotence ==
  [][(pc = "running" /\ ~cancelled /\ StateJson = snap)
       => (events' = events /\ telemetry' = telemetry)]_vars

\* C1 witness: the same snapshot was consumed twice in a row, after a first
\* consumption that emitted a per-message notification and folded a cost.
C1_Witness ==
  /\ pc = "running"
  /\ sameAsPrev
  /\ \E i \in DOMAIN events : IsScanNote(events[i])
  /\ telemetry # turnBase

\* C2 (at-most-once emission): in the trace of a turn, no timestamp has more
\* than one notification made from the complete form of its message.
C2_AtMostOnce == \A ts \in Timestamps : Cardinality(CompleteFormNotesFor(ts)) <= 1

\* C2 witness: two messages each announced, and the snapshot carrying both
\* consumed again.
C2_Witness ==
  /\ sameAsPrev
  /\ \A ts \in Timestamps : Cardinality(CompleteFormNotesFor(ts)) = 1

\* the cost data of a message, read off its payload
CostBearing(msg) ==
  msg.say = "api_req_started" /\ IsJson(msg.text) /\ Has(JsonParse(msg.text), "cost")

CostField(msg, f) ==
  IF Has(JsonParse(msg.text), f) THEN JsonParse(msg.text)[f] ELSE 0

RECURSIVE SumField(_, _, _)
SumField(msgs, i, f) ==
  IF i > Len(msgs) THEN 0
  ELSE (IF CostBearing(msgs[i]) THEN CostField(msgs[i], f) ELSE 0)
       + SumField(msgs, i + 1, f)

\* every cost-bearing message of msgs counted once
CostSum(msgs) ==
  [totalCost |-> SumField(msgs, 1, "cost"),
   totalTokensIn |-> SumField(msgs, 1, "tokensIn"),
   totalTokensOut |-> SumField(msgs, 1, "tokensOut"),
   totalCacheWrites |-> SumField(msgs, 1, "cacheWrites"),
   totalCacheReads |-> SumField(msgs, 1, "cacheReads")]

TelemetryPlus(a, b) ==
  [totalCost |-> a.totalCost + b.totalCost,
   totalTokensIn |-> a.totalTokensIn + b.totalTokensIn,
   totalTokensOut |-> a.totalTokensOut + b.totalTokensOut,
   totalCacheWrites |-> a.totalCacheWrites + b.totalCacheWrites,
   totalCacheReads |-> a.totalCacheReads + b.totalCacheReads]

\* C3 (cost exactness within a turn): while a turn runs, what the turn has
\* added to the session telemetry is the sum of the cost fields of the
\* cost-bearing messages of the snapshot consumed last, each counted once,
\* however many snapshots carried it; before the first snapshot the turn has
\* added nothing.
C3_CostOncePerTurn ==
  pc \in {"running", "awaiting-approval", "ended"}
    => telemetry = TelemetryPlus(turnBase, CostSum(snap.messages))

\* C3 witness: a cost-bearing message with a positive cost consumed in two
\* snapshots in a row.
C3_Witness ==
  /\ sameAsPrev
  /\ \E i \in DOMAIN snap.messages :
        CostBearing(snap.messages[i]) /\ CostField(snap.messages[i], "cost") > 0
  /\ telemetry.totalCost > turnBase.totalCost

\* C4 (cost exactness across turns), as claimed: once the loop has consumed
\* the full history the backend holds, the session telemetry is the sum over
\* the cost-bearing messages of that history, each counted once, in whatever
\* turn it was seen.
C4_CostOnceAcrossTurns ==
  (pc = "running" /\ snap = StateJson) => telemetry = CostSum(messages)

ToolCallsFor(ts, status) ==
  {i \in DOMAIN events :
     /\ IsNotification(events[i])
     /\ events[i].sessionUpdate = "tool_call"
     /\ events[i].ts = ts
     /\ events[i].status = status}

\* C5 (partial-to-complete tool lifecycle), as claimed: a say:tool message
\* that the turn announced as in_progress from a partial appearance and that
\* the loop has now consumed complete has exactly one in_progress tool_call
\* with empty locations and, after it, exactly one completed tool_call with
\* locations (every tool payload of the model names a path).
C5_ToolLifecycle ==
  Consumed =>
    \A k \in DOMAIN snap.messages :
      LET msg == snap.messages[k] IN
      (msg.type = "say" /\ msg.say = "tool" /\ ~msg.partial
         /\ ToolCallsFor(msg.ts, "in_progress") # {})
      => /\ Cardinality(ToolCallsFor(msg.ts, "in_progress")) = 1
         /\ Cardinality(ToolCallsFor(msg.ts, "completed")) = 1
         /\ \A i \in ToolCallsFor(msg.ts, "in_progress") :
              /\ events[i].locations = <<>>
              /\ \A j \in ToolCallsFor(msg.ts, "completed") :
                   i < j /\ events[j].locations # <<>>

ModeUpdates(seq) ==
  LET IsModeUpdate(e) == IsNotification(e) /\ e.sessionUpdate = "current_mode_update"
  IN SelectSeq(seq, IsModeUpdate)

\* C6 (mode-change minimality): a step that consumes a snapshot adds one
\* mode-update, carrying the snapshot's mode, if the turn consumed a
\* snapshot before and that one's mode differs, and adds none otherwise (the
\* first snapshot of the turn, or the same mode again); no other step adds a
\* mode-update.
C6_ModeMinimality ==
  [][IF pc = "running" /\ snap' # snap
     THEN ModeUpdates(events') =
            ModeUpdates(events) \o
              (IF snap # NoSnapshot /\ snap.mode # snap'.mode
               THEN <<createCurrentModeUpdate(snap'.mode)>> ELSE <<>>)
     ELSE ModeUpdates(events') = ModeUpdates(events) \/ events' = <<>>]_vars

\* C6 witness: one mode transition seen, one mode-update in the trace, and
\* the snapshot with the new mode consumed again without a second one.
C6_Witness ==
  /\ sameAsPrev
  /\ modeFlips = 1
  /\ Len(ModeUpdates(events)) = 1

\* the message a permission round-trip is about: the last one of the
\* snapshot consumed last
LastOfSnap == snap.messages[Len(snap.messages)]

IsOutcome(e) == e.ev = "permissionOutcome"

IsFailedUpdate(e) ==
  IsNotification(e) /\ e.sessionUpdate = "tool_call_update" /\ e.status = "failed"

\* the outcome is a selected allow-once or allow-always option
AllowOutcome(e) == e.status = "selected" /\ e.text \in {"allow", "allow_always"}

ApprovalEligibleLast(msgs) ==
  /\ Len(msgs) > 0
  /\ msgs[Len(msgs)].type = "ask"
  /\ ~msgs[Len(msgs)].partial
  /\ msgs[Len(msgs)].ask \in {"tool", "command", "browser_action_launch", "use_mcp_server"}

Appended == SubSeq(events', Len(events) + 1, Len(events'))

C11_CancelStops ==
  [][/\ (pc = "running" /\ cancelled) =>
          /\ events' = events
          /\ telemetry' = telemetry
          /\ pc' \in {"running", "ended"}
          /\ pc' = "ended" => exitReason' \in {"cancel", "error"}
     /\ (pc = "ended" /\ exitReason = "cancel") =>
          /\ telemetry' = telemetry
          /\ Len(events') >= Len(events)
          /\ \A i \in DOMAIN Appended :
               ~IsScanNote(Appended[i]) /\ ~IsPermissionRequest(Appended[i])]_vars

\* C11 witness: the loop had consumed a snapshot, the flag was set, the
\* backend went on, and the next snapshot ended the loop unprocessed.
C11_Witness ==
  /\ pc = "ended" /\ exitReason = "cancel"
  /\ snap # NoSnapshot
  /\ Len(messages) > Len(snap.messages)

\* a call's snapshot loop is active: entered and not yet left
LoopActive(at) == at \in {"running", "awaiting-approval"}

\* C12 (single loop per session), as claimed: whatever the interleaving of
\* prompt and cancel calls, the two prompt calls never have their loops
\* active at the same time, and the session's outbound stream announces no
\* timestamp twice.
C12_SingleLoop ==
  /\ ~(LoopActive(pc) /\ LoopActive(second.pc))
  /\ \A ts \in Timestamps : Cardinality(CompleteFormNotesFor(ts)) <= 1

(***************************************************************************)
(* Claims on the agent's interface.                                        *)
(***************************************************************************)

\* a step is a call that names a session id the agent does not hold
UnknownSessionCall == lastCall' # lastCall /\ ~lastCall'.known

\* C13 (missing session), as claimed: every call that names an unknown
\* session id ends with an error thrown to the caller, makes no backend
\* call and changes nothing of the session or of the turn under way.
C13_MissingSession ==
  [][UnknownSessionCall =>
       /\ lastCall'.result = "throws"
       /\ lastCall'.backend = <<>>
       /\ UNCHANGED <<backendVars, sessionVars, promptVars, loopVars,
                      sessionMode, second>>]_vars

\* C14 (transport termination is not a failure): the end of the stream
\* adds nothing to the trace; after it the loop is never entered again in
\* that turn (no snapshot is consumed, the telemetry stays), and the only
\* step left to the turn is prompt's return, with the closing chunk after
\* the notifications produced so far and a result that is not an error.
C14_StreamEndReturns ==
  [][/\ (pc = "running" /\ exitReason' = "error") => events' = events
     /\ (exitReason = "error" /\ pc # "idle") =>
          /\ pc = "ended"
          /\ pc' \in {"ended", "idle"}
          /\ telemetry' = telemetry
          /\ pc' = "ended" => events' = events
          /\ pc' = "idle" =>
               /\ events' = Append(events, TextChunk("agent_message_chunk", 0, ""))
               /\ stopReason' # "throws"]_vars

\* C14 witness: a turn announced a message, the stream ended, and prompt
\* returned.
C14_Witness ==
  /\ pc = "idle"
  /\ exitReason = "error"
  /\ stopReason = "end_turn"
  /\ \E i \in DOMAIN events : IsScanNote(events[i])

\* C15 (stop reason and closing chunk): whenever a prompt call returns
\* (it did not throw), its stop reason is end_turn and the last entry of
\* the turn's trace is a text chunk with empty text.
C15_EndTurn ==
  [][(pc # "idle" /\ pc' = "idle" /\ stopReason' # "throws") =>
       /\ stopReason' = "end_turn"
       /\ Len(events') >= 1
       /\ events'[Len(events')] = TextChunk("agent_message_chunk", 0, "")]_vars

\* C15 witness: a turn that was cancelled while its loop ran has returned.
C15_Witness ==
  /\ pc = "idle"
  /\ exitReason = "cancel"
  /\ cancelled
  /\ stopReason = "end_turn"

IsNewTask(e) == e.ev = "newTask"

IsFollowUp(e) == e.ev = "askResponse" /\ e.status = "messageResponse"

\* C16 (lazy task creation): before the first prompt nothing was submitted
\* and the flag is false; a prompt submits exactly one call, newTask if the
\* flag is false and askResponse of type messageResponse if it is true, with
\* the prompt's text; when the submission succeeds the flag is true; so
\* newTask is only ever invoked while no submission has succeeded, and every
\* prompt after that invokes askResponse.
C16_LazyTask ==
  [][/\ turns = 0 => (events = <<>> /\ ~isTaskCreated)
     /\ (pc = "seeded" /\ pc' # "seeded") =>
          /\ Len(Appended) >= 1
          /\ Appended[1] = (IF isTaskCreated
                            THEN BackendCall("askResponse", "messageResponse", 0,
                                             userInputText)
                            ELSE BackendCall("newTask", "", 0, userInputText))
          /\ \A i \in 2..Len(Appended) :
               ~IsNewTask(Appended[i]) /\ ~IsFollowUp(Appended[i])
          /\ pc' # "idle" => isTaskCreated'
     /\ pc # "seeded" =>
          \A i \in 1..(Len(events') - Len(events)) :
            ~IsNewTask(Appended[i]) /\ ~IsFollowUp(Appended[i])]_vars

\* C16 witness: the second prompt of the session has submitted its text as
\* a follow-up response.
C16_Witness ==
  /\ turns = 2
  /\ pc = "running"
  /\ Len(events) >= 1
  /\ IsFollowUp(events[1])

TelemetryFields ==
  {"totalCost", "totalTokensIn", "totalTokensOut", "totalCacheWrites",
   "totalCacheReads"}

\* C17 (a new turn resets only per-turn tracking): the start of a turn
\* leaves the telemetry and the flag as they are; entering the loop starts
\* the tracking sets afresh (the sent set from the pre-turn timestamps);
\* the telemetry changes only in a step of the loop that folds costs, and
\* then no counter goes down; the flag never goes back to false.
C17_TurnStartFrame ==
  [][/\ (pc = "idle" /\ pc' # "idle") =>
          (telemetry' = telemetry /\ isTaskCreated' = isTaskCreated)
     /\ (pc = "seeded" /\ pc' = "running") =>
          /\ telemetry' = telemetry
          /\ sentMessageTimestamps' = existingTimestamps
          /\ handledApprovalTimestamps' = {}
          /\ inProgressToolCalls' = {}
          /\ processedCostTimestamps' = {}
          /\ currentMode' = "none"
          /\ lastTaskProgressTs' = 0
     /\ telemetry' # telemetry =>
          /\ pc = "running" /\ snap' = StateJson
          /\ \A f \in TelemetryFields : telemetry'[f] >= telemetry[f]
     /\ isTaskCreated => isTaskCreated']_vars

\* C17 witness: a second turn starts on a session whose counters are not
\* zero and whose task exists.
C17_Witness ==
  /\ turns = 2
  /\ pc = "seeded"
  /\ isTaskCreated
  /\ telemetry.totalCost > 0
  /\ telemetry.totalCacheReads > 0

\* C18 (stored mode is plan or act), as claimed.
C18_ModePlanOrAct == sessionMode \in {"plan", "act"}

\* C19 (the loop stores the new mode), as claimed: after a step that emits
\* a mode-update, the session's stored mode is the mode the update carries.
C19_LoopStoresMode ==
  [][\A i \in 1..(Len(events') - Len(events)) :
       (IsNotification(Appended[i])
          /\ Appended[i].sessionUpdate = "current_mode_update")
       => sessionMode' = Appended[i].text]_vars

\* a step is a setSessionMode call on the session
SetModeCall ==
  lastCall' # lastCall /\ lastCall'.known /\ lastCall'.op = "setSessionMode"

\* C20 (set-mode does not contact the backend), as claimed: a set-mode
\* call stores the mode id and makes no backend call.
C20_SetModeLocal ==
  [][(SetModeCall /\ lastCall'.result = "returns") =>
       /\ sessionMode' = lastCall'.arg
       /\ lastCall'.backend = <<>>]_vars

\* C20 amended: a set-mode call stores the mode id it is given; for plan
\* and for act it first tells the backend to switch to that mode, with one
\* togglePlanActModeProto call, and for any other mode id it makes no
\* backend call; if the backend rejects that call the stored mode stays as
\* it was; nothing else of the session is touched.
C20_SetModeStoresAndToggles ==
  [][SetModeCall =>
       /\ sessionMode' = (IF lastCall'.result = "returns" THEN lastCall'.arg
                          ELSE sessionMode)
       /\ lastCall'.result = "throws" => lastCall'.arg \in {"plan", "act"}
       /\ lastCall'.backend =
            (IF lastCall'.arg = "plan" THEN <<"togglePlanActModeProto:PLAN">>
             ELSE IF lastCall'.arg = "act" THEN <<"togglePlanActModeProto:ACT">>
             ELSE <<>>)
       /\ UNCHANGED <<sessionVars, promptVars, loopVars>>]_vars

\* C20 witness: set-mode to act was called while the stored mode was plan.
C20_Witness ==
  /\ lastCall.op = "setSessionMode" /\ lastCall.known
  /\ lastCall.arg = "act"
  /\ sessionMode = "act"
  /\ mode = "act"

\* C21 (set-mode plan / act): a set-mode call for plan or act makes
\* exactly one backend call, the toggle with the matching mode (PLAN for
\* plan, ACT for act), and when it returns the stored mode is the requested
\* one.
C21_SetModeToggle ==
  [][(SetModeCall /\ lastCall'.arg \in {"plan", "act"}) =>
       /\ Len(lastCall'.backend) = 1
       /\ lastCall'.arg = "plan" => lastCall'.backend[1] = "togglePlanActModeProto:PLAN"
       /\ lastCall'.arg = "act" => lastCall'.backend[1] = "togglePlanActModeProto:ACT"
       /\ lastCall'.result = "returns" => sessionMode' = lastCall'.arg]_vars

\* C21 witness: while a turn's loop had seen the backend in plan mode, a
\* set-mode act call switched the backend and returned.
C21_Witness ==
  /\ lastCall = Call("setSessionMode", TRUE, "act", "returns",
                     <<"togglePlanActModeProto:ACT">>)
  /\ sessionMode = "act"
  /\ pc = "running"
  /\ currentMode = "plan"
  /\ mode = "act"

(***************************************************************************)
(* Claims on the loop's decisions.                                         *)
(***************************************************************************)

\* the last message of the state the backend reports now
LastReported == messages[Len(messages)]

WaitingKinds == {"plan_mode_respond", "followup", "completion_result"}

\* C24 (termination by wait): a step ends the turn as waiting only when the
\* snapshot it consumed has a last message that is new relative to the
\* pre-turn timestamps, not partial, and a request of kind
\* plan_mode_respond, followup or completion_result; and while the last
\* message of the reported state predates the turn, a step of the running
\* loop neither ends the turn (other than by cancellation or the end of the
\* stream) nor issues a permission request.
C24_TerminationByWait ==
  [][/\ (pc = "running" /\ pc' = "ended" /\ exitReason' = "wait") =>
          /\ snap' = StateJson
          /\ Len(messages) > 0
          /\ LastReported.ts \notin existingTimestamps
          /\ ~LastReported.partial
          /\ LastReported.type = "ask"
          /\ LastReported.ask \in WaitingKinds
     /\ (pc = "running" /\ Len(messages) > 0
           /\ LastReported.ts \in existingTimestamps) =>
          /\ pc' \in {"running", "ended"}
          /\ pc' = "ended" => exitReason' \in {"cancel", "error"}
          /\ \A i \in 1..(Len(events') - Len(events)) :
               ~IsPermissionRequest(Appended[i])]_vars

\* C24 witness: a second turn, begun when the history ended with a request
\* that had ended the first turn as waiting, has itself ended as waiting on
\* a new request after it.
C24_Witness ==
  /\ turns = 2
  /\ pc = "ended" /\ exitReason = "wait"
  /\ Len(snap.messages) = 2
  /\ snap.messages[1].ask \in WaitingKinds
  /\ snap.messages[1].ts \in existingTimestamps
  /\ snap.messages[2].ask \in WaitingKinds

(***************************************************************************)
(* cline-acp-agent.ts: the agent with several sessions.  Each id has its   *)
(* entry in this.sessions and, while prompt runs for it, the locals of     *)
(* that call; all sessions talk to the one backend and to the one client,  *)
(* and every notification carries the id it was sent for.                  *)
(***************************************************************************)
SessionTemplates ==
  {t \in Templates :
     \/ t.say = "text" /\ t.text = "Hi there" /\ ~t.partial
     \/ t.say = "api_req_started" /\ t.text = CostJson
     \/ t.ask = "command"}

\* sessionId on every notification and permission request
Keyed(sid, out) == [i \in DOMAIN out |-> [sessionId |-> sid, update |-> out[i]]]

\* mutant of Register: the new entry replaces the registry
RegisterAlone(reg, sid) ==
  [s \in SessionIds |-> IF s = sid THEN NewEntry(sid) ELSE NoEntry]

\* this.sessions[sessionId] = { ... }
Register(reg, sid) == [reg EXCEPT ![sid] = NewEntry(sid)]

\* mutant of StoreTelemetry: the counters are written to every session
StoreTelemetryInAll(reg, sid, tel) ==
  [s \in SessionIds |-> IF reg[s] = NoEntry THEN NoEntry
                        ELSE [reg[s] EXCEPT !.telemetry = tel]]

\* session.totalCost += ... on the entry looked up by the loop's session id
StoreTelemetry(reg, sid, tel) == [reg EXCEPT ![sid].telemetry = tel]

\* newSession: uuidv7 gives an id the agent does not hold yet
NewSession(sid) ==
  /\ registry[sid] = NoEntry
  /\ registry' = Register(registry, sid)
  /\ outbound' = <<>>
  /\ actor' = sid
  /\ UNCHANGED <<backendVars, sessionVars, promptVars, loopVars, sessionMode,
                 stopReason, lastCall, second, calls>>

SessionPromptStart(sid, text) ==
  /\ registry[sid] # NoEntry
  /\ calls[sid].pc = "idle"
  /\ turns < MaxTurns
  /\ turns' = turns + 1
  /\ registry' = [registry EXCEPT ![sid].cancelled = FALSE]
  /\ calls' = [calls EXCEPT ![sid] =
                 [NoSecond EXCEPT
                    !.pc = "seeded",
                    !.userInputText = text,
                    !.existingTimestamps =
                       SeedTimestamps(registry[sid].isTaskCreated, messages)]]
  /\ outbound' = <<>>
  /\ actor' = sid
  /\ UNCHANGED <<backendVars, sessionVars, pc, exitReason, userInputText,
                 existingTimestamps, events, turnBase, stopReason, loopVars,
                 sessionMode, lastCall, second>>

SessionPromptSubmit(sid) ==
  /\ calls[sid].pc = "seeded"
  /\ registry' = [registry EXCEPT ![sid].isTaskCreated = TRUE]
  /\ outbound' = Keyed(sid, <<PlanUpdate(<<>>)>>)
  /\ calls' = [calls EXCEPT ![sid] =
                 IF registry[sid].cancelled
                 THEN [@ EXCEPT !.pc = "ended"]
                 ELSE [@ EXCEPT !.pc = "running",
                                !.sentMessageTimestamps =
                                   calls[sid].existingTimestamps]]
  /\ actor' = sid
  /\ UNCHANGED <<backendVars, sessionVars, promptVars, loopVars, sessionMode,
                 stopReason, lastCall, second>>

\* one iteration of the for-await loop of the call for sid
SessionSnapshot(sid) ==
  /\ calls[sid].pc = "running"
  /\ actor' = sid
  /\ IF CancelObserved(registry[sid].cancelled)
     THEN /\ calls' = [calls EXCEPT ![sid].pc = "ended"]
          /\ outbound' = <<>>
          /\ UNCHANGED registry
     ELSE
       LET call == calls[sid]
           state == StateJson
           msgs == state.messages
           newMode == state.mode
           modeOut == IF ModeChanged(call.currentMode, newMode)
                      THEN <<createCurrentModeUpdate(newMode)>> ELSE <<>>
           cost == FoldCosts(msgs, 1, call.processedCostTimestamps,
                             registry[sid].telemetry)
           progressed == TaskProgressChanged(msgs, call.lastTaskProgressTs)
           latest == getLatestTaskProgress(msgs)
           planOut == IF progressed THEN clineTaskProgressToAcpPlan(msgs[latest])
                      ELSE <<>>
           scan == ScanMessages(msgs, 1, state.workspaceRoot, call.userInputText,
                                call.sentMessageTimestamps,
                                call.inProgressToolCalls, <<>>)
           isNew == LastMessageIsNew(msgs, call.existingTimestamps)
           approval == isNew /\ needsApproval(msgs)
           request == approval /\
                      ApprovalUnhandled(msgs[Len(msgs)].ts,
                                        call.handledApprovalTimestamps)
           out == SnapshotOut(modeOut, planOut, scan.out)
           ends == ~approval /\ isNew /\
                   (isWaitingForUserInput(msgs) \/ isTaskComplete(msgs))
       IN
         /\ registry' = StoreTelemetry(registry, sid, cost.telemetry)
         /\ outbound' = Keyed(sid, out \o
                         (IF request THEN <<PermissionRequest(msgs[Len(msgs)])>>
                          ELSE <<>>))
         /\ calls' = [calls EXCEPT ![sid] = [call EXCEPT
               !.snap = state,
               !.currentMode = newMode,
               !.processedCostTimestamps = cost.processed,
               !.lastTaskProgressTs = IF progressed THEN msgs[latest].ts
                                      ELSE call.lastTaskProgressTs,
               !.sentMessageTimestamps = scan.sent,
               !.inProgressToolCalls = scan.inProgress,
               !.handledApprovalTimestamps =
                  IF request
                  THEN call.handledApprovalTimestamps \cup {msgs[Len(msgs)].ts}
                  ELSE call.handledApprovalTimestamps,
               !.pc = IF request THEN "awaiting-approval"
                      ELSE IF ends THEN "ended" ELSE "running"]]
  /\ UNCHANGED <<backendVars, sessionVars, promptVars, loopVars, sessionMode,
                 stopReason, lastCall, second>>

SessionStreamEnd(sid) ==
  /\ calls[sid].pc = "running"
  /\ calls' = [calls EXCEPT ![sid].pc = AfterStreamError]
  /\ outbound' = <<>>
  /\ actor' = sid
  /\ UNCHANGED <<backendVars, sessionVars, promptVars, loopVars, sessionMode,
                 stopReason, lastCall, second, registry>>

SessionPermissionReturn(sid, outcome) ==
  /\ calls[sid].pc = "awaiting-approval"
  /\ LET lastMessage == calls[sid].snap.messages[Len(calls[sid].snap.messages)] IN
       outbound' = Keyed(sid, SelectSeq(ApprovalReply(lastMessage, outcome),
                                        IsNotification))
  /\ calls' = [calls EXCEPT ![sid].pc = "running"]
  /\ actor' = sid
  /\ UNCHANGED <<backendVars, sessionVars, promptVars, loopVars, sessionMode,
                 stopReason, lastCall, second, registry>>

SessionFinish(sid) ==
  /\ calls[sid].pc = "ended"
  /\ outbound' = Keyed(sid, <<TextChunk("agent_message_chunk", 0, "")>>)
  /\ calls' = [calls EXCEPT ![sid] = NoSecond]
  /\ actor' = sid
  /\ UNCHANGED <<backendVars, sessionVars, promptVars, loopVars, sessionMode,
                 stopReason, lastCall, second, registry>>

\* cancel for an id the agent holds
SessionCancel(sid) ==
  /\ registry[sid] # NoEntry
  /\ registry' = [registry EXCEPT ![sid].cancelled = TRUE]
  /\ outbound' = <<>>
  /\ actor' = sid
  /\ UNCHANGED <<backendVars, sessionVars, promptVars, loopVars, sessionMode,
                 stopReason, lastCall, second, calls>>

\* setSessionMode for an id the agent holds, the backend call returning
SessionSetMode(sid, modeId) ==
  /\ registry[sid] # NoEntry
  /\ mode' = IF TogglePlanActMode(modeId) = <<>> THEN mode ELSE modeId
  /\ mode' # mode => modeFlips < MaxModeFlips
  /\ modeFlips' = IF mode' # mode THEN modeFlips + 1 ELSE modeFlips
  /\ registry' = [registry EXCEPT ![sid].mode = modeId]
  /\ outbound' = <<>>
  /\ actor' = sid
  /\ UNCHANGED <<messages, workspaceRoot, sessionVars, promptVars, loopVars,
                 sessionMode, stopReason, lastCall, second, calls>>

\* the backend appends a message once some session has submitted a task
SessionBackendAppend(tpl) ==
  /\ \E sid \in SessionIds : registry[sid] # NoEntry /\ registry[sid].isTaskCreated
  /\ Len(messages) < MaxMsgs
  /\ messages' = Append(messages,
        Msg(FirstTs + Len(messages), tpl.type, tpl.say, tpl.ask, tpl.text, tpl.partial))
  /\ outbound' = <<>>
  /\ actor' = "none"
  /\ UNCHANGED <<mode, workspaceRoot, modeFlips, sessionVars, promptVars,
                 loopVars, sessionMode, stopReason, lastCall, second, registry,
                 calls>>

NextSessions ==
  \/ \E sid \in SessionIds : NewSession(sid)
  \/ \E sid \in SessionIds, text \in PromptTexts : SessionPromptStart(sid, text)
  \/ \E sid \in SessionIds : SessionPromptSubmit(sid)
  \/ \E sid \in SessionIds : SessionSnapshot(sid)
  \/ \E sid \in SessionIds : SessionStreamEnd(sid)
  \/ \E sid \in SessionIds, outcome \in Outcomes : SessionPermissionReturn(sid, outcome)
  \/ \E sid \in SessionIds : SessionFinish(sid)
  \/ \E sid \in SessionIds : SessionCancel(sid)
  \/ \E sid \in SessionIds, modeId \in {"plan", "act"} : SessionSetMode(sid, modeId)
  \/ \E tpl \in SessionTemplates : SessionBackendAppend(tpl)

SpecSessions == Init /\ [][NextSessions]_vars

(***************************************************************************)
(* The session against a backend that answers with text messages only:     *)
(* the echo of the prompt, prose, and text whose payload is JSON.          *)
(***************************************************************************)
EchoTexts == PromptTexts \cup {"Hi there"}

EchoTemplates ==
  {[type |-> "say", say |-> "text", ask |-> "", text |-> t, partial |-> p] :
      t \in EchoTexts \cup {ToolJson, ResponseJson}, p \in BOOLEAN}

NextEcho ==
  \/ \E text \in EchoTexts : PromptStart(text)
  \/ PromptSubmit
  \/ PromptSubmitFails
  \/ PromptFinish
  \/ Cancel
  \/ ProcessSnapshot
  \/ StreamEnd
  \/ \E tpl \in EchoTemplates : BackendAppend(tpl)
  \/ \E i \in 1..MaxMsgs : BackendComplete(i)

SpecEcho == Init /\ [][NextEcho]_vars

\* a complete say:text message whose raw text is the text of the turn
EchoOfPrompt(msg) ==
  msg.type = "say" /\ msg.say = "text" /\ ~msg.partial /\ msg.text = userInputText

\* the text chunks of the turn's trace
TextChunks ==
  {i \in DOMAIN events : IsNotification(events[i])
                         /\ events[i].sessionUpdate = "agent_message_chunk"}

\* every echo in a consumed snapshot is marked sent and no notification of
\* the turn stems from it
EchoSuppressed ==
  Consumed =>
    \A i \in DOMAIN snap.messages :
      EchoOfPrompt(snap.messages[i]) =>
        /\ snap.messages[i].ts \in sentMessageTimestamps
        /\ \A j \in DOMAIN events :
             IsNotification(events[j]) => events[j].ts # snap.messages[i].ts

\* the consumed snapshot is [echo, complete say:text with another, non-empty
\* text], both new in the turn
EchoThenText ==
  /\ Consumed
  /\ Len(snap.messages) = 2
  /\ EchoOfPrompt(snap.messages[1])
  /\ snap.messages[2].type = "say" /\ snap.messages[2].say = "text"
  /\ ~snap.messages[2].partial
  /\ snap.messages[2].text \notin {"", userInputText}
  /\ \A i \in 1..2 : snap.messages[i].ts \notin existingTimestamps

C27_CancelNotLost ==
  [][(pc = "running" /\ cancelled) =>
       /\ pc' = "running" => cancelled'
       /\ pc' # "running" => pc' = "ended" /\ events' = events]_vars

\* the place of a trace entry in the order of one iteration's effects
EffectRank(e) ==
  IF IsNotification(e) /\ e.sessionUpdate = "current_mode_update" THEN 1
  ELSE IF IsNotification(e) /\ e.sessionUpdate = "plan" THEN 2
  ELSE IF IsScanNote(e) THEN 3
  ELSE IF IsPermissionRequest(e) THEN 4
  ELSE 5

\* the notification the classifier makes of a complete message, when the
\* message is neither the echo nor a task-progress message, is in the trace
Announced(msgs, i, trace) ==
  LET note == clineMessageToAcpNotification(msgs[i], i - 1, workspaceRoot) IN
  (/\ note # <<>>
   /\ ~IsEchoedInput(msgs[i], userInputText)
   /\ msgs[i].say # "task_progress") => \E j \in DOMAIN trace : IsScanNote(trace[j]) /\ trace[j].ts = msgs[i].ts

\* C28 (order within one snapshot): what a step of the running loop adds to
\* the trace is, in this order, at most one mode-update, at most one plan,
\* the per-message notifications in array order, and at most one permission
\* request, which is then the last entry and leaves the loop awaiting the
\* decision; the telemetry is folded in the same step; when the step ends
\* the turn by wait or completion, every complete message of its snapshot is
\* in the sent set, and every one that is new in the turn and that the
\* message loop hands to the classifier with a result has its notification
\* in the trace
C28_SnapshotOrder ==
  [][pc = "running" =>
       /\ \A i, j \in DOMAIN Appended :
            i < j =>
              /\ EffectRank(Appended[i]) <= EffectRank(Appended[j])
              /\ EffectRank(Appended[i]) = EffectRank(Appended[j]) =>
                   /\ EffectRank(Appended[i]) = 3
                   /\ Appended[i].ts < Appended[j].ts
       /\ \A i \in DOMAIN Appended : EffectRank(Appended[i]) <= 4
       /\ (\E i \in DOMAIN Appended : EffectRank(Appended[i]) = 4) <=>
            pc' = "awaiting-approval"
       /\ (Appended # <<>> \/ telemetry' # telemetry) => snap' = StateJson
       /\ (pc' = "ended" /\ exitReason' \in {"wait", "complete"}) =>
            /\ snap' = StateJson
            /\ \A i \in DOMAIN messages :
                 ~messages[i].partial =>
                   /\ messages[i].ts \in sentMessageTimestamps'
                   /\ messages[i].ts \notin existingTimestamps =>
                        Announced(messages, i, events')]_vars

\* one step sent a mode-update, a plan, a pending tool call and the
\* permission request, in this order
C28_Witness ==
  /\ pc = "awaiting-approval"
  /\ Len(events) >= 4
  /\ EffectRank(events[Len(events) - 3]) = 1
  /\ EffectRank(events[Len(events) - 2]) = 2
  /\ EffectRank(events[Len(events) - 1]) = 3
  /\ EffectRank(events[Len(events)]) = 4

(***************************************************************************)
(* The session against a backend that reports task progress: checklists,   *)
(* progress texts without a checkbox line, and prose.                      *)
(***************************************************************************)
PlanTemplates ==
  {[type |-> "say", say |-> "task_progress", ask |-> "", text |-> t, partial |-> p] :
      t \in {Checklist, "Hi there"}, p \in BOOLEAN}
  \cup
  {[type |-> "say", say |-> "text", ask |-> "", text |-> "Hi there", partial |-> FALSE]}

NextPlan ==
  \/ \E text \in PromptTexts : PromptStart(text)
  \/ PromptSubmit
  \/ PromptSubmitFails
  \/ PromptFinish
  \/ Cancel
  \/ ProcessSnapshot
  \/ StreamEnd
  \/ \E tpl \in PlanTemplates : BackendAppend(tpl)
  \/ \E i \in 1..MaxMsgs : BackendComplete(i)

SpecPlan == Init /\ [][NextPlan]_vars

IsPlan(e) == IsNotification(e) /\ e.sessionUpdate = "plan"

\* the plan notifications with entries in a trace
FilledPlans(seq) ==
  LET Filled(e) == IsPlan(e) /\ e.entries # <<>> IN SelectSeq(seq, Filled)

TaskProgressIndices == {i \in DOMAIN messages : messages[i].say = "task_progress"}

\* the last task-progress message the backend reports
LatestProgress == messages[CHOOSE i \in TaskProgressIndices :
                             \A j \in TaskProgressIndices : j <= i]

\* the checkbox lines of a payload as plan entries
EntriesOf(text) ==
  LET parsed == parseTaskProgressToPlanEntries(text) IN
  [i \in 1..Len(parsed) |->
     [content |-> parsed[i].content, status |-> parsed[i].status,
      priority |-> "medium"]]

\* C29 (plan emission): a step of the running, not cancelled loop that
\* consumes the reported state adds one plan notification, the whole entry
\* list of the latest task-progress message with priority medium, exactly
\* when that message's timestamp differs from the tracked one and its
\* payload has at least one entry, and no plan otherwise; the tracked
\* timestamp becomes that timestamp whenever it differs, emitted or not;
\* in a turn there are no more plans with entries than task-progress
\* timestamps
C29_PlanEmission ==
  /\ [][(pc = "running" /\ ~cancelled /\ snap' = StateJson) =>
          LET changed == /\ TaskProgressIndices # {}
                         /\ LatestProgress.ts # lastTaskProgressTs
          IN /\ SelectSeq(Appended, IsPlan) =
                  IF changed /\ Len(EntriesOf(LatestProgress.text)) >= 1
                  THEN <<PlanUpdate(EntriesOf(LatestProgress.text))>>
                  ELSE <<>>
             /\ lastTaskProgressTs' = IF changed THEN LatestProgress.ts
                                      ELSE lastTaskProgressTs]_vars
  /\ [](Len(FilledPlans(events)) <= Cardinality(TaskProgressIndices))

\* the loop sent the plan of a checklist and then tracked a later progress
\* message without a checkbox line, for which it sent nothing
C29_Witness ==
  /\ pc = "running"
  /\ Len(messages) = 2
  /\ messages[1].say = "task_progress" /\ messages[1].text = Checklist
  /\ messages[2].say = "task_progress" /\ messages[2].text = "Hi there"
  /\ lastTaskProgressTs = messages[2].ts
  /\ Len(FilledPlans(events)) = 1
  /\ sameAsPrev

\* C30 (fresh plan per prompt): once a prompt has submitted, the second
\* entry of its trace, right after the call to the backend, is the plan with
\* no entries, and the turn sends a plan with entries only if the backend
\* reports a task-progress message whose timestamp is not in the pre-turn set
C30_FreshPlan ==
  pc \in {"running", "awaiting-approval", "ended"} =>
    /\ Len(events) >= 2
    /\ events[1].ev \in {"newTask", "askResponse"}
    /\ events[2] = PlanUpdate(<<>>)
    /\ FilledPlans(events) # <<>> =>
         \E i \in TaskProgressIndices : messages[i].ts \notin existingTimestamps

\* C22 (session creation): a step that gives an id its entry gives it the
\* entry with that id, the five counters at zero, mode plan, cancellation
\* flag false and task-created false; the id held no entry before; every
\* other id's entry and call are as they were; every entry is stored under
\* its own id
C22_NewSession ==
  /\ [][\A sid \in SessionIds :
          (registry[sid] = NoEntry /\ registry'[sid] # NoEntry) =>
            /\ registry'[sid].id = sid
            /\ registry'[sid].telemetry =
                 [totalCost |-> 0, totalTokensIn |-> 0, totalTokensOut |-> 0,
                  totalCacheWrites |-> 0, totalCacheReads |-> 0]
            /\ registry'[sid].mode = "plan"
            /\ ~registry'[sid].cancelled
            /\ ~registry'[sid].isTaskCreated
            /\ \A other \in SessionIds \ {sid} : registry'[other] = registry[other]
            /\ calls' = calls]_vars
  /\ [](\A sid \in SessionIds : registry[sid] # NoEntry => registry[sid].id = sid)

\* s2 was created while s1 had folded a cost, created its task, switched to
\* act and been cancelled
C22_Witness ==
  /\ actor = "s2"
  /\ registry["s2"] = NewEntry("s2")
  /\ registry["s1"] # NoEntry
  /\ registry["s1"].isTaskCreated
  /\ registry["s1"].cancelled
  /\ registry["s1"].mode = "act"
  /\ registry["s1"].telemetry.totalCost > 0
  /\ calls["s1"].pc = "running"

\* C23 (session isolation): a step that runs for session A leaves the entry
\* and the call of every other session as they were, and everything it sends
\* to the client carries A's id
C23_Isolation ==
  [][\A a \in SessionIds :
       actor' = a =>
         /\ \A b \in SessionIds \ {a} :
              registry'[b] = registry[b] /\ calls'[b] = calls[b]
         /\ \A i \in DOMAIN outbound' : outbound'[i].sessionId = a]_vars

\* the loop of s1 has just folded a cost and announced a message while the
\* loop of s2 runs with counters of its own
C23_Witness ==
  /\ actor = "s1"
  /\ calls["s1"].pc = "running" /\ calls["s2"].pc = "running"
  /\ registry["s1"].telemetry.totalCost > 0
  /\ registry["s2"].telemetry = ZeroTelemetry
  /\ \E i \in DOMAIN outbound : outbound[i].update.sessionUpdate = "agent_message_chunk"

\* C31 (only new messages in a follow-up turn): the pre-turn timestamp set
\* is fixed before the follow-up response is submitted (the submission
\* leaves it as it was read), and the turn's trace holds no text chunk,
\* thought chunk or tool call, of any status, for a timestamp in that set
C31_OnlyNewMessages ==
  /\ pc = "seeded" =>
       existingTimestamps = SeedTimestamps(isTaskCreated,
                               SubSeq(messages, 1, Cardinality(existingTimestamps)))
  /\ pc \in {"running", "awaiting-approval", "ended"} =>
       \A i \in DOMAIN events :
         IsScanNote(events[i]) => events[i].ts \notin existingTimestamps

\* the step consumes a snapshot in which message i is complete for the first
\* time: the snapshot consumed before held it partial
FirstCompleteAppearance(i) ==
  /\ pc = "running" /\ ~cancelled
  /\ snap # NoSnapshot /\ snap' = StateJson
  /\ i \in DOMAIN snap.messages
  /\ snap.messages[i].partial /\ ~messages[i].partial

\* C32 (partial messages are not marked sent): a message that the snapshot
\* consumed last holds in partial form is not in the sent set, and the step
\* that consumes its first complete appearance sends the notification the
\* classifier makes of it
C32_PartialNotSent ==
  /\ [](Consumed =>
          \A i \in DOMAIN snap.messages :
            snap.messages[i].partial => snap.messages[i].ts \notin sentMessageTimestamps)
  /\ [][\A i \in DOMAIN messages :
          FirstCompleteAppearance(i) => Announced(messages, i, Appended)]_vars

\* C33 (partial at seeding): a message whose timestamp is in the pre-turn set
\* and that the turn has seen in partial form is announced by the step that
\* consumes its first complete appearance
C33_SeededPartial ==
  [][\A i \in DOMAIN messages :
       (FirstCompleteAppearance(i) /\ messages[i].ts \in existingTimestamps)
         => Announced(messages, i, Appended)]_vars

\* C32 apart from the pre-turn set: what C32 states, for the messages whose
\* timestamp is not in the pre-turn set
PartialNotSentWhenNew ==
  /\ [](Consumed =>
          \A i \in DOMAIN snap.messages :
            (snap.messages[i].partial /\ snap.messages[i].ts \notin existingTimestamps)
              => snap.messages[i].ts \notin sentMessageTimestamps)
  /\ [][\A i \in DOMAIN messages :
          (FirstCompleteAppearance(i) /\ messages[i].ts \notin existingTimestamps)
            => Announced(messages, i, Appended)]_vars

(***************************************************************************)
(* The session against a backend whose closing requests stream in: the     *)
(* plan-mode response and the completion result arrive partial first.      *)
(***************************************************************************)
ClosingTemplates ==
  {[type |-> "ask", say |-> "", ask |-> a, text |-> t, partial |-> p] :
      a \in {"completion_result"}, t \in {""}, p \in BOOLEAN}
  \cup
  {t \in Templates : t.ask = "plan_mode_respond" \/ (t.say = "text" /\ t.text = "Hi there")}

NextClosing ==
  \/ \E text \in PromptTexts : PromptStart(text)
  \/ PromptSubmit
  \/ PromptSubmitFails
  \/ PromptFinish
  \/ Cancel
  \/ ProcessSnapshot
  \/ StreamEnd
  \/ \E tpl \in ClosingTemplates : BackendAppend(tpl)
  \/ \E i \in 1..MaxMsgs : BackendComplete(i)

SpecClosing == Init /\ [][NextClosing]_vars

\* C34 (the full response is processed before the turn ends): a step that
\* ends the loop as waiting for the user or as task complete consumes a
\* snapshot whose last message is complete
C34_CompleteLast ==
  [][(pc = "running" /\ pc' = "ended" /\ exitReason' \in {"wait", "complete"}) =>
       /\ snap' = StateJson
       /\ Len(messages) > 0
       /\ ~LastReported.partial]_vars

(***************************************************************************)
(* The session against a backend that reports the cost of its requests:    *)
(* api_req_started messages without cost data, with it, with a cost of     *)
(* zero, and with cost data that is rewritten under the same timestamp.    *)
(***************************************************************************)
CostTemplates ==
  {t \in Templates : t.say = "api_req_started" \/ (t.say = "text" /\ t.text = "Hi there")}

\* the backend rewrites the cost data of a request that already had some
BackendRecost(i, text) ==
  /\ i \in 1..Len(messages)
  /\ messages[i].say = "api_req_started"
  /\ messages[i].text \in {CostJson, CostZeroJson}
  /\ text # messages[i].text
  /\ messages' = [messages EXCEPT ![i].text = text]
  /\ UNCHANGED <<mode, workspaceRoot, modeFlips, sessionVars, promptVars, loopVars,
                 apiVars>>

NextCost ==
  \/ \E text \in PromptTexts : PromptStart(text)
  \/ PromptSubmit
  \/ PromptSubmitFails
  \/ PromptFinish
  \/ Cancel
  \/ ProcessSnapshot
  \/ StreamEnd
  \/ \E tpl \in CostTemplates : BackendAppend(tpl)
  \/ \E i \in 1..MaxMsgs : BackendComplete(i)
  \/ \E i \in 1..MaxMsgs, text \in {CostJson, CostZeroJson} : BackendCost(i, text)
  \/ \E i \in 1..MaxMsgs, text \in {CostJson, CostZeroJson} : BackendRecost(i, text)

SpecCost == Init /\ [][NextCost]_vars

\* the messages of the reported state not yet in the cost-processed set
CostPending ==
  LET Pending(msg) == msg.ts \notin processedCostTimestamps IN
  SelectSeq(messages, Pending)

\* what a step that consumes the reported state does about costs: a message
\* of the cost-bearing kind without a cost field stays out of the processed
\* set; one with a cost field (zero included) that is not in the set is put
\* in it and its fields, the missing ones as zero, are added to the
\* telemetry; nothing else is added
FoldsAtFirstCost ==
  (pc = "running" /\ ~cancelled /\ snap' = StateJson) =>
     /\ processedCostTimestamps' =
          processedCostTimestamps \cup
            {messages[i].ts : i \in {j \in DOMAIN messages : CostBearing(messages[j])}}
     /\ \A i \in DOMAIN messages :
          (messages[i].say = "api_req_started" /\ ~CostBearing(messages[i])
             /\ messages[i].ts \notin processedCostTimestamps)
            => messages[i].ts \notin processedCostTimestamps'
     /\ telemetry' = TelemetryPlus(telemetry, CostSum(CostPending))

\* the reported messages with, for each cost-bearing kind message, one of the
\* payloads it may have had
CostHistories ==
  LET idx == {i \in DOMAIN messages : messages[i].say = "api_req_started"} IN
  {[i \in DOMAIN messages |->
      IF i \in idx THEN [messages[i] EXCEPT !.text = pick[i]] ELSE messages[i]] :
     pick \in [idx -> {NoCostJson, CostJson, CostZeroJson}]}

\* C35 (cost folding time): every consuming step folds as FoldsAtFirstCost
\* says, and the session telemetry is always a sum to which each timestamp
\* contributes at most once, with the fields of one payload it carried
C35_CostFoldingTime ==
  /\ [][FoldsAtFirstCost]_vars
  /\ [](\E h \in CostHistories : telemetry = CostSum(h))

\* C35 within one turn: the same, for what the turn has added to the
\* telemetry
CostFoldingInTurn ==
  /\ [][FoldsAtFirstCost]_vars
  /\ [](pc \in {"running", "awaiting-approval", "ended"} =>
          \E h \in CostHistories : telemetry = TelemetryPlus(turnBase, CostSum(h)))

(***************************************************************************)
(* The session with its scheduling: every await of the agent returns (the  *)
(* submission to the backend, the delivery of the next snapshot while the  *)
(* loop waits, the permission request, the closing chunk).  Nothing is     *)
(* assumed about the backend or about when the stream closes.              *)
(***************************************************************************)
LiveTemplates ==
  {t \in Templates :
     \/ t.say = "text" /\ t.text = "Hi there"
     \/ t.ask \in {"command", "plan_mode_respond", "completion_result"}}

NextLive ==
  \/ \E text \in PromptTexts : PromptStart(text)
  \/ PromptSubmit
  \/ PromptSubmitFails
  \/ PromptFinish
  \/ Cancel
  \/ ProcessSnapshot
  \/ StreamEnd
  \/ \E outcome \in Outcomes : PermissionReturn(outcome)
  \/ \E tpl \in LiveTemplates : BackendAppend(tpl)
  \/ \E i \in 1..MaxMsgs : BackendComplete(i)

SpecLive ==
  /\ Init /\ [][NextLive]_vars
  /\ WF_vars(PromptSubmit)
  /\ WF_vars(ProcessSnapshot)
  /\ WF_vars(\E outcome \in Outcomes : PermissionReturn(outcome))
  /\ WF_vars(PromptFinish)

\* a termination condition holds on the state the backend reports: the
\* cancellation flag is set, or the last message is new in the turn,
\* complete, and a request that waits for the user (the completion result
\* is one)
TerminationCondition ==
  \/ cancelled
  \/ /\ Len(messages) > 0
     /\ LastReported.ts \notin existingTimestamps
     /\ ~LastReported.partial
     /\ LastReported.type = "ask" /\ LastReported.ask \in WaitingKinds

\* C36 (turn termination): if again and again the loop is not left waiting
\* on a stream that stays open with no termination condition on what it
\* delivers, then every prompt call that has read its pre-turn state
\* returns
C36_TurnTerminates ==
  ([]<>(pc # "running" \/ TerminationCondition)) => (pc = "seeded" ~> pc = "idle")

\* a prompt call returned after its loop left on a message waiting for the
\* user
C36_Witness ==
  /\ pc = "idle" /\ turns >= 1
  /\ exitReason = "wait" /\ stopReason = "end_turn"
  /\ Len(messages) > 0 /\ LastReported.ask \in WaitingKinds

IsToolCall(e) == IsNotification(e) /\ e.sessionUpdate = "tool_call"

IsToolCallUpdate(e) == IsNotification(e) /\ e.sessionUpdate = "tool_call_update"

\* C37 (referential integrity of tool-call ids): every permission request
\* and every tool-call-update in the turn's trace comes after a tool-call
\* notification of the same turn with the same id
C37_ToolCallIds ==
  \A i \in DOMAIN events :
    (IsPermissionRequest(events[i]) \/ IsToolCallUpdate(events[i])) =>
      \E j \in 1..(i - 1) : IsToolCall(events[j]) /\ events[j].ts = events[i].ts

\* C37 for the kinds the classifier turns into tool calls: the same, for
\* requests about a tool or a command
ToolCallIdsOfToolAndCommand ==
  \A i \in DOMAIN events :
    (/\ IsPermissionRequest(events[i]) \/ IsToolCallUpdate(events[i])
     /\ \E k \in DOMAIN messages :
          messages[k].ts = events[i].ts /\ messages[k].ask \in {"tool", "command"}) =>
      \E j \in 1..(i - 1) : IsToolCall(events[j]) /\ events[j].ts = events[i].ts

(***************************************************************************)
(* The session against a backend whose messages carry tool data in their   *)
(* text: output and request messages of the kinds the classifier turns     *)
(* into text, with a plain text or a tool payload.                         *)
(***************************************************************************)
ProseTexts == {"Hi there", ToolJson, PathContentJson}

ProseTemplates ==
  {[type |-> "say", say |-> k, ask |-> "", text |-> t, partial |-> FALSE] :
      k \in {"text", "reasoning"}, t \in ProseTexts}
  \cup
  {[type |-> "ask", say |-> "", ask |-> k, text |-> t, partial |-> FALSE] :
      k \in {"followup", "plan_mode_respond", "browser_action_launch"},
      t \in ProseTexts}

NextProse ==
  \/ \E text \in PromptTexts : PromptStart(text)
  \/ PromptSubmit
  \/ PromptSubmitFails
  \/ PromptFinish
  \/ Cancel
  \/ ProcessSnapshot
  \/ StreamEnd
  \/ \E outcome \in Outcomes : PermissionReturn(outcome)
  \/ \E tpl \in ProseTemplates : BackendAppend(tpl)

SpecProse == Init /\ [][NextProse]_vars

\* a text that parses as tool-shaped JSON
ToolShaped(text) ==
  /\ IsJson(text)
  /\ \/ "tool" \in DOMAIN JsonTable[text]
     \/ /\ "path" \in DOMAIN JsonTable[text]
        /\ {"content", "operationIsLocatedInWorkspace"} \cap DOMAIN JsonTable[text] # {}

IsProse(e) ==
  IsNotification(e) /\ e.sessionUpdate \in {"agent_message_chunk", "agent_thought_chunk"}

\* C38 (tool-shaped JSON never leaks as prose): no text chunk and no thought
\* chunk of the turn's trace carries a text that parses as tool-shaped JSON
C38_NoToolJsonProse ==
  \A i \in DOMAIN events : IsProse(events[i]) => ~ToolShaped(events[i].text)

\* C38 for the output channel: the same, for the chunks that stem from an
\* output (say) message
NoToolJsonProseFromSay ==
  \A i \in DOMAIN events :
    (/\ IsProse(events[i])
     /\ \E k \in DOMAIN messages :
          messages[k].ts = events[i].ts /\ messages[k].type = "say") =>
      ~ToolShaped(events[i].text)

(***************************************************************************)
(* The session against a backend that runs and requests file tools: the    *)
(* payload's path is relative, absolute, the workspace folder's name or    *)
(* missing, its content field an absolute path, a preview or missing, and  *)
(* the backend reports no workspace root or one of two.                    *)
(***************************************************************************)
PathRoots == {"", "/ws", "/home/ws"}

PathPayloads ==
  {ToolJson, ReadAbsContentJson, ReadPreviewJson, ListRootJson, ReadAbsPathJson,
   ReadNoPathJson}

PathTemplates ==
  {[type |-> "say", say |-> "tool", ask |-> "", text |-> t, partial |-> FALSE] :
      t \in PathPayloads}
  \cup
  {[type |-> "ask", say |-> "", ask |-> "tool", text |-> t, partial |-> FALSE] :
      t \in PathPayloads}

NextPaths ==
  \/ \E text \in PromptTexts : PromptStart(text)
  \/ PromptSubmit
  \/ PromptSubmitFails
  \/ PromptFinish
  \/ Cancel
  \/ ProcessSnapshot
  \/ StreamEnd
  \/ \E outcome \in Outcomes : PermissionReturn(outcome)
  \/ \E tpl \in PathTemplates : BackendAppend(tpl)

InitPaths == InitAt(PathRoots)

SpecPaths == InitPaths /\ [][NextPaths]_vars

\* a string that starts with the path separator
SlashFirst(str) == str # "" /\ "/" \o SubSeq(str, 2, Len(str)) = str

\* the part of a root after its last path separator
BaseNameOf(root) ==
  LET cuts == {i \in 0..Len(root) : i = 0 \/ SubSeq(root, i, i) = "/"}
      last == CHOOSE i \in cuts : \A j \in cuts : j <= i
  IN SubSeq(root, last + 1, Len(root))

\* the primary (path) and the secondary (content) field of a payload
PrimaryOf(text) == IF "path" \in DOMAIN JsonTable[text] THEN JsonTable[text].path ELSE ""

SecondaryOf(text) ==
  IF "content" \in DOMAIN JsonTable[text] THEN JsonTable[text].content ELSE ""

\* the path the descriptor of a payload is to have under a workspace root
ResolvedPath(text, root) ==
  IF SlashFirst(SecondaryOf(text)) THEN SecondaryOf(text)
  ELSE IF root # "" /\ PrimaryOf(text) # "" /\ ~SlashFirst(PrimaryOf(text))
       THEN IF PrimaryOf(text) = BaseNameOf(root) THEN root
            ELSE root \o "/" \o PrimaryOf(text)
       ELSE PrimaryOf(text)

\* the message a tool call of the trace stems from
SourceOf(e) == CHOOSE m \in {messages[k] : k \in DOMAIN messages} : m.ts = e.ts

\* the paths and the inline contents a tool call carries
PathsOf(e) == {e.locations[k].path : k \in DOMAIN e.locations}

InlineOf(e) ==
  {e.content[k].text : k \in {n \in DOMAIN e.content : e.content[n].type = "content"}}

\* C39 (tool path resolution): a completed or pending tool call of the trace
\* carries the resolved path of its message's payload (the content field if
\* it starts with a path separator; else, with a workspace root and a
\* relative path, the root for the root's base name and the root joined
\* with the path otherwise; else the path unchanged), carries inline
\* content only if the content field does not start with a path separator,
\* and never carries one value both as its path and as its inline content
C39_PathResolution ==
  \A i \in DOMAIN events :
    (IsToolCall(events[i]) /\ events[i].status \in {"completed", "pending"}) =>
      LET e == events[i]
          text == SourceOf(e).text
          path == ResolvedPath(text, workspaceRoot)
      IN /\ PathsOf(e) = IF path = "" THEN {} ELSE {path}
         /\ InlineOf(e) # {} => ~SlashFirst(SecondaryOf(text))
         /\ InlineOf(e) \subseteq {SecondaryOf(text)}
         /\ PathsOf(e) \cap InlineOf(e) = {}

\* a tool call was sent whose path is its payload's content field, without
\* inline content, and one whose path is the workspace root itself
C39_Witness ==
  /\ \E i \in DOMAIN events :
       /\ IsToolCall(events[i]) /\ events[i].status \in {"completed", "pending"}
       /\ SourceOf(events[i]).text = ReadAbsContentJson
       /\ PathsOf(events[i]) = {"/ws/a.ts"}
       /\ InlineOf(events[i]) = {}
  /\ \E i \in DOMAIN events :
       /\ IsToolCall(events[i])
       /\ SourceOf(events[i]).text = ListRootJson
       /\ PathsOf(events[i]) = {workspaceRoot}

====
